---- MODULE Spec2Model ----
(***************************************************************************)
(* A model of the localhost HTTP server: the incremental request readers   *)
(* (server/stream.rs UnifiedReader, server/connection.rs                   *)
(* Connection::read_request), the reactor's connection map and timeout     *)
(* sweep (server/server.rs), the session protocol (server/session.rs,      *)
(* server/handlers.rs SessionHandler, server/host.rs), the dispatch of     *)
(* Host::route_request, the serialisation of responses and requests        *)
(* (http/body.rs, http/response.rs, http/request.rs), the serving of       *)
(* static files (server/static_files.rs), the framing decision of the      *)
(* readers, the route lookup of Host::get_route and the upload registry    *)
(* (server/uploader.rs, server/handlers.rs FileAPIHandler).                *)
(*                                                                         *)
(* Bytes are strings.  CR and LF are single bytes, as are the hex digits   *)
(* of a chunk-size line and the payload bytes.  The text of one header     *)
(* line (without its CR LF) is one symbol: the readers only scan a header  *)
(* block for CR LF CR LF and then read it line by line.                    *)
(*                                                                         *)
(* A call of a reader is one action.  The socket is a queue of fragments:  *)
(* each read() of the call returns the next fragment, and an empty queue   *)
(* answers WouldBlock (or 0 once the peer has closed).                     *)
(***************************************************************************)
EXTENDS Integers, Sequences, FiniteSets, TLC

\* ------------------------------------------------------------ bounds
\* Sizes are scaled: the code compares lengths with these numbers and the
\* model keeps the comparisons.
\* stream.rs:11 and connection.rs:9 (4096): the most bytes one read returns.
BUFFER_SIZE == 10
\* stream.rs:13 and connection.rs:10 (10 MiB).
MAX_REQUEST_SIZE == 12
\* The longest Content-Length body a client of the model sends.
MaxBody == 6
\* The most fragments that wait unread in the socket.
MaxPending == 2
\* server.rs:35 (60 s), in clock units.
TIMEOUT_DURATION == 3
\* The clock stops here.
MaxTime == 4
\* tests/connection_tests.rs:76 (sleep of 31 s), in the clock units of
\* TIMEOUT_DURATION (20 s each), rounded up.
IDLE_IN_TEST == 2
\* The client fds the kernel hands out.
MaxFd == 1
\* The most connections that wait in a listener's accept queue.
MaxBacklog == 2
\* The deepest recursion the stack of a thread holds.
MaxDepth == 4
\* The most header lines of a block given to the framing decision.
MaxHeaderLines == 3
\* The most routes of a host.
MaxRoutes == 2
\* The most files of the upload directory.
MaxFiles == 3
\* The longest uri the test of the limits accepts (8192 characters), scaled.
URI_LIMIT_IN_TEST == 4
\* The Max-Age of the session cookie (the options of SessionConfig,
\* config/config.rs:51-55), in clock units.
SessionMaxAge == 2

\* ------------------------------------------------------------ bytes
CR == "CR"
LF == "LF"
RequestLine == "GET / HTTP/1.1"
TEChunked == "Transfer-Encoding: chunked"
ContentLengthLines ==
    <<"Content-Length: 0", "Content-Length: 1", "Content-Length: 2",
      "Content-Length: 3", "Content-Length: 4", "Content-Length: 5",
      "Content-Length: 6", "Content-Length: 7", "Content-Length: 8">>
HexDigits == <<"0", "1", "2", "3", "4", "5", "6", "7", "8", "9">>
Payload == <<"r", "s", "t", "u", "v", "w", "x", "y", "z">>
NoneVal == -1

Min(a, b) == IF a < b THEN a ELSE b
Max(a, b) == IF a > b THEN a ELSE b
Drop(s, n) == SubSeq(s, n + 1, Len(s))
Take(s, n) == SubSeq(s, 1, n)


\* stream.rs find_headers_end / connection.rs find_headers_end: the index
\* just past the first CR LF CR LF, or NoneVal.
find_headers_end(data) ==
    LET hits == {i \in 1..(Len(data) - 3) :
                    /\ data[i] = CR /\ data[i + 1] = LF
                    /\ data[i + 2] = CR /\ data[i + 3] = LF}
    IN IF hits = {} THEN NoneVal
       ELSE (CHOOSE i \in hits : \A j \in hits : i <= j) + 3

\* stream.rs find_line_end: the index just past the first CR LF, or NoneVal.
find_line_end(data) ==
    LET hits == {i \in 1..(Len(data) - 1) : data[i] = CR /\ data[i + 1] = LF}
    IN IF hits = {} THEN NoneVal
       ELSE (CHOOSE i \in hits : \A j \in hits : i <= j) + 1

HexValue(b) ==
    IF \E k \in 1..Len(HexDigits) : HexDigits[k] = b
    THEN (CHOOSE k \in 1..Len(HexDigits) : HexDigits[k] = b) - 1
    ELSE NoneVal

\* stream.rs parse_chunk_size: usize::from_str_radix(line, 16); an empty
\* line or a byte that is no hex digit gives None.
RECURSIVE HexFold(_, _)
HexFold(line, acc) ==
    IF line = <<>> THEN acc
    ELSE IF HexValue(Head(line)) = NoneVal THEN NoneVal
    ELSE HexFold(Tail(line), acc * 16 + HexValue(Head(line)))

parse_chunk_size(line) == IF line = <<>> THEN NoneVal ELSE HexFold(line, 0)

\* The lines of a header block: str::lines() splits at LF and drops a CR
\* that ends a line.
RECURSIVE Lines(_, _)
Lines(data, cur) ==
    IF data = <<>> THEN (IF cur = <<>> THEN <<>> ELSE <<cur>>)
    ELSE IF Head(data) = LF
         THEN <<IF cur # <<>> /\ cur[Len(cur)] = CR
                THEN Take(cur, Len(cur) - 1) ELSE cur>>
              \o Lines(Tail(data), <<>>)
         ELSE Lines(Tail(data), Append(cur, Head(data)))

\* Header lines that are not those of the model's clients: a Content-Length
\* whose value is no number, a header that quotes the text of another one,
\* and a Host header.
BadLengthLine == "Content-Length: abc"
NoteLine == "X-Note: transfer-encoding: chunked"
HostLine == "Host: localhost"
\* stream.rs:147: line.to_lowercase().contains("transfer-encoding: chunked").
contains_chunked(text) == text \in {TEChunked, NoteLine}
\* stream.rs:152, connection.rs:127:
\* line.to_lowercase().starts_with("content-length:").
starts_with_content_length(text) ==
    \/ text = BadLengthLine
    \/ \E n \in 1..Len(ContentLengthLines) : ContentLengthLines[n] = text

\* stream.rs:153-154, connection.rs:128-129: the text after the first ':',
\* trimmed and parsed as a number, or NoneVal.
ContentLengthOfLine(line) ==
    IF Len(line) >= 1
       /\ \E n \in 1..Len(ContentLengthLines) : ContentLengthLines[n] = line[1]
    THEN (CHOOSE n \in 1..Len(ContentLengthLines) :
              ContentLengthLines[n] = line[1]) - 1
    ELSE NoneVal

\* connection.rs get_content_length: the value of the first line that
\* starts with "content-length:", or NoneVal.
get_content_length(headers) ==
    LET ls == Lines(headers, <<>>)
        hits == {i \in 1..Len(ls) :
                    Len(ls[i]) >= 1 /\ starts_with_content_length(ls[i][1])}
    IN IF hits = {} THEN NoneVal
       ELSE ContentLengthOfLine(ls[CHOOSE i \in hits : \A j \in hits : i <= j])

\* stream.rs determine_reader_type: Chunked when a line holds
\* "transfer-encoding: chunked", else Standard with the Content-Length, else
\* Standard with 0.
determine_reader_type(data, headers_end) ==
    LET ls == Lines(Take(data, headers_end), <<>>)
    IN IF \E i \in 1..Len(ls) : \E k \in 1..Len(ls[i]) :
              contains_chunked(ls[i][k])
       THEN [tag |-> "Chunked", content_length |-> 0]
       ELSE IF get_content_length(Take(data, headers_end)) # NoneVal
            THEN [tag |-> "Standard",
                  content_length |-> get_content_length(Take(data, headers_end))]
            ELSE [tag |-> "Standard", content_length |-> 0]

\* ------------------------------------------------------------ state
VARIABLES
    \* the client and the socket
    reqs,               \* the requests the client sends, in order (fixed)
    wire,               \* bytes the client has not sent yet
    sock,               \* fragments received by the kernel and not read yet
    peer_closed,        \* the client has closed its side
    \* where control is: "reactor", or inside a call that does not return
    pc,
    \* UnifiedReader (stream.rs:92-105)
    buffer, state, reader_type, current_chunk_size,
    ret,                \* what the last read_next call returned
    served,             \* the completed requests handed over so far
    \* Connection (connection.rs:14-21)
    c_buffer,
    c_ret,              \* what the last read_request call returned
    \* Server (server.rs:38-45) and its clock
    now,                \* Instant::now(), in clock units
    phase,              \* where Server::run is: "wait" (epoll_wait) or "events"
    connections,        \* fd -> [start_time, keep_alive]
    registered,         \* the client fds in the epoll interest list
    last_partial,       \* fd -> when bytes of a request that is still incomplete
                        \*       were last read, or NoneVal (not in the code)
    served_idle,        \* fd -> the last traffic on the connection was a
                        \*       request that was answered, at start_time
                        \*       (not in the code)
    backlog,            \* connections waiting in the listener's accept queue
    listener_ready,     \* the listener has an edge-triggered event to report
    \* sessions
    host,               \* the Host of Server::hosts: its session manager's store
    issued,             \* the sessions POST /api/session/create has answered with
    handled,            \* the last request handled: what ran and what was sent
    \* a SessionManager called directly
    manager,            \* the store of the session manager
    destroyed,          \* the ids destroy_session has been called with
    call,               \* the last call: its arguments, its time and its result
    \* the http layer called directly
    routed,             \* the last call of route_request: arguments and answer
    built,              \* the response serialised by the last call, if it was one
    parsed,             \* the request serialised and parsed by the last call
    \* static files
    disk,               \* the paths that are files, and the 404 page configured
    served_file,        \* the last call of serve_file: its path and its result
    served_static,      \* the last call of serve_static: its path and result
    \* the framing decision and the route lookup, called directly
    framing,            \* a block of header lines and the framing chosen for it
    lookup,             \* a host's routes, a request path and the route found
    \* the upload registry
    database,           \* Server::uploader.database: the records of the files
    upload_dir,         \* the files of the upload directory
    uploads             \* the records the answers to the uploads gave, of
                        \* the files not deleted since (not in the code)

netVars == <<reqs, wire, sock, peer_closed>>
readerVars == <<buffer, state, reader_type, current_chunk_size, ret, served>>
connVars == <<c_buffer, c_ret>>
managerVars == <<manager, destroyed, call>>
httpVars == <<routed, built, parsed, disk, served_file>>
dispatchVars == <<served_static, framing, lookup>>
uploadVars == <<database, upload_dir, uploads>>
sessionVars == <<host, issued, handled, managerVars>>
reactorVars == <<now, phase, connections, registered, last_partial,
                 served_idle, backlog, listener_ready, sessionVars,
                 httpVars, dispatchVars, uploadVars>>
vars == <<reqs, wire, sock, peer_closed, pc, buffer, state, reader_type,
          current_chunk_size, ret, served, c_buffer, c_ret,
          now, phase, connections, registered, last_partial,
          served_idle, backlog, listener_ready, host, issued, handled,
          manager, destroyed, call, routed, built, parsed,
          disk, served_file, served_static, framing, lookup,
          database, upload_dir, uploads>>

\* ------------------------------------------------------------ requests
StdReq(n) == [kind |-> "std", len |-> n, chunks |-> <<>>]
BareReq == [kind |-> "bare", len |-> 0, chunks |-> <<>>]
ChunkedReq(sizes) == [kind |-> "chunked", len |-> 0, chunks |-> sizes]

RECURSIVE SumSeq(_)
SumSeq(s) == IF s = <<>> THEN 0 ELSE Head(s) + SumSeq(Tail(s))

\* The chunks of a chunked body, from payload byte `from` on: each a size
\* line in hex, CR LF, the data, CR LF.
RECURSIVE ChunkBytes(_, _)
ChunkBytes(sizes, from) ==
    IF sizes = <<>> THEN <<>>
    ELSE <<HexDigits[Head(sizes) + 1], CR, LF>>
         \o SubSeq(Payload, from, from + Head(sizes) - 1) \o <<CR, LF>>
         \o ChunkBytes(Tail(sizes), from + Head(sizes))

HeaderBytes(r) ==
    IF r.kind = "std"
    THEN <<RequestLine, CR, LF, ContentLengthLines[r.len + 1], CR, LF, CR, LF>>
    ELSE IF r.kind = "chunked"
    THEN <<RequestLine, CR, LF, TEChunked, CR, LF, CR, LF>>
    ELSE <<RequestLine, CR, LF, CR, LF>>

\* The body a request carries once decoded.
BodyOf(r) ==
    IF r.kind = "std" THEN Take(Payload, r.len)
    ELSE IF r.kind = "chunked" THEN Take(Payload, SumSeq(r.chunks))
    ELSE <<>>

\* The bytes of a request on the wire.
WireBytes(r) ==
    HeaderBytes(r) \o
    (IF r.kind = "chunked"
     THEN ChunkBytes(r.chunks, 1) \o <<"0", CR, LF, CR, LF>>
     ELSE BodyOf(r))

RECURSIVE WireOf(_)
WireOf(rs) == IF rs = <<>> THEN <<>> ELSE WireBytes(Head(rs)) \o WireOf(Tail(rs))

\* What the clients of the model send: one request of each framing, or two
\* requests back to back.
Single ==
    {<<StdReq(n)>> : n \in 0..MaxBody}
    \cup {<<BareReq>>}
    \cup {<<ChunkedReq(c)>> : c \in {<<>>, <<1>>, <<2>>, <<1, 1>>}}
Pipelined ==
    {<<StdReq(1), BareReq>>, <<BareReq, BareReq>>, <<StdReq(0), StdReq(1)>>}
Workloads == Single \cup Pipelined

\* ------------------------------------------------------------ the client
\* The client sends its next k bytes; they reach the socket as one fragment.
Deliver ==
    /\ Len(sock) < MaxPending
    /\ \E k \in 1..Min(BUFFER_SIZE, Len(wire)) :
          /\ sock' = Append(sock, Take(wire, k))
          /\ wire' = Drop(wire, k)
    /\ UNCHANGED <<reqs, peer_closed, pc, readerVars, connVars, reactorVars>>

\* The client closes once it has sent everything.
PeerClose ==
    /\ wire = <<>>
    /\ ~peer_closed
    /\ peer_closed' = TRUE
    /\ UNCHANGED <<reqs, wire, sock, pc, readerVars, connVars, reactorVars>>

\* ------------------------------------------------------------ UnifiedReader
AwaitingHeaders == [tag |-> "AwaitingHeaders", data |-> <<>>, headers_end |-> 0]
ProcessingBody(acc, he) == [tag |-> "ProcessingBody", data |-> acc, headers_end |-> he]
Complete(d, he) == [tag |-> "Complete", data |-> d, headers_end |-> he]
Unknown == [tag |-> "Unknown", content_length |-> 0]

\* RequestData::get_headers / get_body (stream.rs:27-34).
get_headers(st) == Take(st.data, st.headers_end)
get_body(st) == Drop(st.data, st.headers_end)

\* stream.rs:134-143.
NewReader ==
    [buffer |-> <<>>, state |-> AwaitingHeaders, reader_type |-> Unknown,
     current_chunk_size |-> NoneVal, sock |-> <<>>, ret |-> "None"]

\* What stream.read gives on an empty socket: 0 after the peer's close,
\* else an error of kind WouldBlock.
EmptyRead == IF peer_closed THEN "EndOfStream" ELSE "WouldBlock"

\* stream.rs:161-188.  `self` holds the reader's fields and the socket; the
\* accumulated data is the call's own copy, and a read error returns
\* without storing it.
RECURSIVE process_standard_body(_, _, _, _)
process_standard_body(self, accumulated_data, headers_end, content_length) ==
    LET total_expected == headers_end + content_length
    IN IF Len(accumulated_data) < total_expected
       THEN IF self.sock = <<>>
            THEN [self EXCEPT !.ret = EmptyRead]
            ELSE process_standard_body(
                     [self EXCEPT !.sock = Tail(self.sock)],
                     accumulated_data \o Head(self.sock),
                     headers_end, content_length)
       ELSE [self EXCEPT
                !.buffer = Drop(accumulated_data, total_expected),
                !.state = Complete(Take(accumulated_data, total_expected),
                                   headers_end),
                !.ret = "Complete"]

\* stream.rs:198-214: the chunk-size step of one loop iteration.  Gives the
\* reader after it, with ret = "Complete" when the size is 0.
ChunkSizeStep(self, accumulated_data, headers_end) ==
    LET line_end == find_line_end(self.buffer)
        size == IF line_end = NoneVal THEN NoneVal
                ELSE parse_chunk_size(Take(self.buffer, line_end - 2))
    IN IF self.current_chunk_size # NoneVal \/ size = NoneVal THEN self
       ELSE IF size = 0
            THEN [self EXCEPT !.state = Complete(accumulated_data, headers_end),
                              !.ret = "Complete"]
            ELSE [self EXCEPT !.current_chunk_size = size,
                              !.buffer = Drop(self.buffer, line_end)]

\* stream.rs:191-233.  An iteration that finds no chunk size and has none
\* pending reads nothing and changes nothing: the loop then runs for ever
\* ("Spin").
RECURSIVE process_chunked_body(_, _, _)
process_chunked_body(self, accumulated_data, headers_end) ==
    LET s1 == ChunkSizeStep([self EXCEPT !.ret = "None"], accumulated_data,
                            headers_end)
        chunk_size == s1.current_chunk_size
    IN IF s1.ret = "Complete" THEN s1
       ELSE IF chunk_size = NoneVal THEN [s1 EXCEPT !.ret = "Spin"]
       ELSE IF Len(s1.buffer) >= chunk_size + 2
            THEN process_chunked_body(
                     [s1 EXCEPT !.buffer = Drop(s1.buffer, chunk_size + 2),
                                !.current_chunk_size = NoneVal],
                     accumulated_data \o Take(s1.buffer, chunk_size),
                     headers_end)
       ELSE IF s1.sock = <<>> THEN [s1 EXCEPT !.ret = EmptyRead]
       ELSE process_chunked_body(
                [s1 EXCEPT !.buffer = s1.buffer \o Head(s1.sock),
                           !.sock = Tail(s1.sock)],
                accumulated_data, headers_end)

\* stream.rs:269-286: read_next in a state other than AwaitingHeaders.
read_next_body(self) ==
    IF self.state.tag = "ProcessingBody"
    THEN IF self.reader_type.tag = "Unknown"
         THEN [self EXCEPT !.ret = "EndOfStream"]
         ELSE IF self.reader_type.tag = "Standard"
         THEN process_standard_body(self, self.state.data,
                                    self.state.headers_end,
                                    self.reader_type.content_length)
         ELSE process_chunked_body(self, self.state.data,
                                   self.state.headers_end)
    ELSE IF self.state.tag = "Complete"
    THEN [self EXCEPT !.ret = "Complete"]
    ELSE [self EXCEPT !.ret = "EndOfStream"]

\* stream.rs:243-287.
read_next(self) ==
    IF self.state.tag = "AwaitingHeaders"
    THEN IF self.sock = <<>>
         THEN [self EXCEPT !.ret = EmptyRead]
         ELSE LET buf == self.buffer \o Head(self.sock)
                  headers_end == find_headers_end(buf)
              IN IF headers_end # NoneVal
                 THEN read_next_body(
                          [self EXCEPT
                              !.sock = Tail(self.sock),
                              !.reader_type = determine_reader_type(buf, headers_end),
                              !.buffer = Drop(buf, headers_end),
                              !.state = ProcessingBody(buf, headers_end)])
                 ELSE [self EXCEPT !.sock = Tail(self.sock),
                                   !.buffer = buf,
                                   !.ret = "AwaitingHeaders"]
    ELSE read_next_body(self)

\* A reset that clears the buffer and the state and leaves the reader type
\* and the chunk size as they are.
reset_keeps_type(self) ==
    [self EXCEPT !.buffer = <<>>, !.state = AwaitingHeaders]
\* stream.rs:311-317.
reset(self) ==
    [self EXCEPT !.buffer = <<>>, !.state = AwaitingHeaders,
                 !.reader_type = Unknown, !.current_chunk_size = NoneVal]

Self ==
    [buffer |-> buffer, state |-> state, reader_type |-> reader_type,
     current_chunk_size |-> current_chunk_size, sock |-> sock, ret |-> ret]

Store(r) ==
    /\ buffer' = r.buffer
    /\ state' = r.state
    /\ reader_type' = r.reader_type
    /\ current_chunk_size' = r.current_chunk_size
    /\ sock' = r.sock
    /\ ret' = r.ret

\* A readiness event of the connection: the reactor calls read_next.
ReadNext ==
    /\ pc = "reactor"
    /\ LET r == read_next(Self)
       IN /\ Store(r)
          /\ pc' = IF r.ret = "Spin" THEN "spin" ELSE "reactor"
    /\ UNCHANGED <<reqs, wire, peer_closed, served, connVars, reactorVars>>

\* The response to a completed request is written and the reader is
\* prepared for the next request.
Reset ==
    /\ pc = "reactor"
    /\ state.tag = "Complete"
    /\ Store([reset(Self) EXCEPT !.ret = "None"])
    /\ served' = Append(served, state)
    /\ UNCHANGED <<reqs, wire, peer_closed, pc, connVars, reactorVars>>

Fds == 1..MaxFd
\* The connection map (server.rs:40) as a function of the fd: an fd that is
\* no key of the map has the entry NoConnection.
NoConnection ==
    [open |-> FALSE, start_time |-> 0, keep_alive |-> FALSE, host_name |-> ""]
InMap(fd) == connections[fd].open

\* A fresh reader and connection on an open socket (stream.rs:134-143,
\* connection.rs:24-34).
InitStream ==
    /\ sock = <<>>
    /\ peer_closed = FALSE
    /\ pc = "reactor"
    /\ buffer = NewReader.buffer
    /\ state = NewReader.state
    /\ reader_type = NewReader.reader_type
    /\ current_chunk_size = NewReader.current_chunk_size
    /\ ret = "None"
    /\ served = <<>>
    /\ c_buffer = <<>>
    /\ c_ret = "None"

\* ------------------------------------------------------------ sessions
\* The session ids generate_id can give (session.rs:259-261).
Ids == {"s1", "s2"}
\* session.rs:12-18, Session: a record of the store, with its expiry
\* (expires_at: Option<SystemTime>).  NoSession is an id the store has not.
NoSession == [present |-> FALSE, expires_at |-> NoneVal]
Session(expires_at) == [present |-> TRUE, expires_at |-> expires_at]
\* session.rs:32-34, Session::is_expired at clock time t.
is_expired(session, t) ==
    session.expires_at # NoneVal /\ t > session.expires_at

\* session.rs:81-91, MemorySessionStore: id -> session.
EmptyStore == [id \in Ids |-> NoSession]
\* The stores a SessionManager can be built with: SessionManager::new
\* (session.rs:135-137) and Host::new (host.rs:78-100) are public and take
\* any store; main.rs:157 passes an empty one.
Stores == [Ids -> {NoSession, Session(NoneVal), Session(1)}]
\* host.rs:67-74, Host: its optional session manager and that manager's store.
Hosts ==
    {[session_manager |-> FALSE, store |-> EmptyStore]}
    \cup {[session_manager |-> TRUE, store |-> s] : s \in Stores}

\* header.rs:67-98, HeaderName, and header.rs:449-455, its to_string():
\* `name` is as_str() for the enumerated name and the original text for a
\* custom one.  CookieHeaderNames are the names the request parser can give
\* a Cookie header (request.rs:91).
HeaderNameCookie == [tag |-> "Cookie", name |-> "Cookie"]
CustomName(text) == [tag |-> "Custom", name |-> text]
CookieHeaderNames ==
    {HeaderNameCookie, CustomName("Cookie"), CustomName("cookie")}
HeaderName_to_string(h) == h.name
\* The value of a Cookie header is the sequence of its `name=value` parts,
\* which the text separates with ';'.
CookiePair(name, value) == [name |-> name, value |-> value]
\* header.rs:347-381, Cookie::parse: the text before the first ';' is the
\* cookie's name and value, every later part is read as an option of that
\* cookie.  A text without `name=value` gives None.
Cookie_parse(cookie_str) ==
    IF cookie_str = <<>>
    THEN [some |-> FALSE, name |-> "", value |-> "none"]
    ELSE [some |-> TRUE, name |-> cookie_str[1].name,
          value |-> cookie_str[1].value]
\* The name of the session cookie (SessionConfig.name).
CookieName == "SID"
\* NoCookie: the request has no Cookie header.  Cookies: the Cookie headers
\* of the requests, `SID=<id>` under each name the parser can give.
NoCookie == [name |-> [tag |-> "None", name |-> ""], value |-> <<>>]
Cookies ==
    {NoCookie}
    \cup {[name |-> n, value |-> <<CookiePair(CookieName, id)>>] :
              n \in CookieHeaderNames, id \in Ids}

\* route.rs and host.rs:156-182: the routes of the host.  The two session
\* routes are those of add_session_api; "/secret" requires a session and
\* redirects, "/private" requires one and does not, "/" requires none.
RouteTable ==
    <<[path |-> "/api/session/create", method |-> "POST",
       session_required |-> "Some(false)", session_redirect |-> "None"],
      [path |-> "/api/session/delete", method |-> "DELETE",
       session_required |-> "Some(true)", session_redirect |-> "None"],
      [path |-> "/secret", method |-> "GET",
       session_required |-> "Some(true)", session_redirect |-> "/login"],
      [path |-> "/private", method |-> "GET",
       session_required |-> "Some(true)", session_redirect |-> "None"],
      [path |-> "/", method |-> "GET",
       session_required |-> "None", session_redirect |-> "None"]>>
\* The requests of the model: one per route, with or without a Cookie header.
Requests == [route : 1..Len(RouteTable), cookie : Cookies]

\* Result<Option<Session>, ServerError> (session.rs:171, 220-221).
OkNone == [tag |-> "Ok", session |-> "None", error |-> "none", arg |-> <<>>]
OkSome(id) == [tag |-> "Ok", session |-> id, error |-> "none", arg |-> <<>>]
Err(error, arg) ==
    [tag |-> "Err", session |-> "None", error |-> error, arg |-> arg]
Skipped == [tag |-> "Skipped", session |-> "None", error |-> "none", arg |-> <<>>]

\* A get_session that fails for an expired session and leaves its record in
\* the store.
get_session_keeps(store, cookie_header, t) ==
    LET cookie == Cookie_parse(cookie_header.value)
    IN IF cookie_header # NoCookie /\ cookie.some
          /\ cookie.value \in Ids /\ store[cookie.value].present
       THEN IF ~is_expired(store[cookie.value], t)
            THEN [store |-> store, result |-> OkSome(cookie.value)]
            ELSE [store |-> store,
                  result |-> Err("SessionExpired", <<cookie.value>>)]
       ELSE [store |-> store, result |-> OkNone]
\* session.rs:171-184, SessionManager::get_session, with the store it
\* leaves.
get_session(store, cookie_header, t) ==
    LET cookie == Cookie_parse(cookie_header.value)
    IN IF cookie_header # NoCookie /\ cookie.some
          /\ cookie.value \in Ids /\ store[cookie.value].present
       THEN IF ~is_expired(store[cookie.value], t)
            THEN [store |-> store, result |-> OkSome(cookie.value)]
            ELSE [store |-> [store EXCEPT ![cookie.value] = NoSession],
                  result |-> Err("SessionExpired", <<cookie.value>>)]
       ELSE [store |-> store, result |-> OkNone]

\* http responses (response.rs) as far as the session protocol shows them,
\* and the text a ServerError is displayed as (errors.rs:104-133).
NoSetCookie == [name |-> "", value |-> "", max_age |-> NoneVal]
HttpResponse(status, location, set_cookie, body_empty) ==
    [kind |-> "http", status |-> status, location |-> location,
     set_cookie |-> set_cookie, body_empty |-> body_empty, text |-> <<>>]
ErrorText(result) ==
    [kind |-> "text", status |-> NoneVal, location |-> "None",
     set_cookie |-> NoSetCookie, body_empty |-> FALSE,
     text |-> <<"Session Error: ",
                IF result.error = "SessionExpiredRedirect"
                THEN "Session expired, redirecting to: "
                ELSE "Session expired: ">> \o result.arg]
NoResponse ==
    [kind |-> "none", status |-> NoneVal, location |-> "None",
     set_cookie |-> NoSetCookie, body_empty |-> TRUE, text |-> <<>>]

\* session.rs:186-199, SessionManager::destroy_session: the store without
\* the session; the header it returns is DestroyCookie.
\* destroy_session that returns the clearing cookie and leaves the store as
\* it is.
destroy_session_keeps(store, session_id) == store
destroy_session(store, session_id) == [store EXCEPT ![session_id] = NoSession]
DestroyCookie == [name |-> CookieName, value |-> "", max_age |-> 0]

\* session.rs:220-255, SessionMiddleware::process.  t is the clock when
\* get_session reads it and t + d the clock at l.237.
process(req, route, store, t, d) ==
    IF route.session_required # "Some(true)"
    THEN [store |-> store, result |-> OkNone]
    ELSE LET cookie_header ==                  \* l.233
                 IF req.cookie.name = HeaderNameCookie
                 THEN req.cookie ELSE NoCookie
             got == get_session(store, cookie_header, t)
         IN IF got.result.tag = "Ok" /\ got.result.session # "None"
            THEN IF is_expired(got.store[got.result.session], t + d)
                 THEN [store |-> destroy_session(got.store, got.result.session),
                       result |->
                           IF route.session_redirect # "None"
                           THEN Err("SessionExpired",
                                    <<"Redirect to: ", route.session_redirect>>)
                           ELSE Err("SessionExpired", <<got.result.session>>)]
                 ELSE got
            ELSE IF got.result.tag = "Ok"
            THEN [store |-> got.store,
                  result |->
                      IF route.session_redirect # "None"
                      THEN Err("SessionExpiredRedirect",
                               <<route.session_redirect>>)
                      ELSE Err("SessionExpired", <<"Session expired">>)]
            ELSE got

\* handlers.rs:423-445, handle_create_session, and session.rs:139-169,
\* create_session: a session with the fresh id new_id, stored; 200 with the
\* Set-Cookie header.
create_session(store, new_id, t) ==
    [store EXCEPT ![new_id] = Session(t + SessionMaxAge)]
handle_create_session(store, new_id, t) ==
    [store |-> create_session(store, new_id, t),
     handler |-> "create",
     sent |-> HttpResponse(200, "None",
                  [name |-> CookieName, value |-> new_id,
                   max_age |-> SessionMaxAge], FALSE)]

\* handlers.rs:448-473, handle_destroy_session.
handle_destroy_session(req, store, t) ==
    LET cookie_header ==                       \* l.453
            IF req.cookie # NoCookie
               /\ HeaderName_to_string(req.cookie.name) = "cookie"
            THEN req.cookie ELSE NoCookie
        got == get_session(store, cookie_header, t)
    IN IF got.result.tag = "Ok" /\ got.result.session # "None"
       THEN [store |-> destroy_session(got.store, got.result.session),
             handler |-> "destroy",
             sent |-> HttpResponse(200, "None", DestroyCookie, FALSE)]
       ELSE [store |-> got.store, handler |-> "destroy",
             sent |-> HttpResponse(404, "None", NoSetCookie, FALSE)]

\* host.rs:185-271, Host::route_request, for the routes of the model.
route_request(h, req, route, new_id, t) ==
    IF route.path \in {"/api/session/create", "/api/session/delete"}
    THEN IF h.session_manager                  \* host.rs:222-233
         THEN IF route.method = "POST"         \* handlers.rs:409-415
              THEN handle_create_session(h.store, new_id, t)
              ELSE handle_destroy_session(req, h.store, t)
         ELSE [store |-> h.store, handler |-> "unavailable",
               sent |-> HttpResponse(503, "None", NoSetCookie, FALSE)]
    ELSE [store |-> h.store, handler |-> "static",   \* host.rs:236-241
          sent |-> HttpResponse(200, "None", NoSetCookie, FALSE)]

\* server.rs:164-227 for a completed request on a matched route, run on
\* `h`, the clone of the host that server.rs:329 hands to the handler.
\* Gives the clone's store afterwards, the middleware's result, the handler
\* that ran and what was sent.
serve(h, req, new_id, t, d) ==
    LET route == RouteTable[req.route]
        mw == IF h.session_manager             \* server.rs:167-168
              THEN process(req, route, h.store, t, d)
              ELSE [store |-> h.store, result |-> Skipped]
    IN IF mw.result.tag = "Err"                \* server.rs:173-181
       THEN [store |-> mw.store, mw |-> mw.result, handler |-> "none",
             sent |-> ErrorText(mw.result)]
       ELSE LET r == route_request([h EXCEPT !.store = mw.store], req, route,
                                   new_id, t + d)
            IN [store |-> r.store, mw |-> mw.result, handler |-> r.handler,
                sent |-> r.sent]

NoEvent ==
    [req |-> [route |-> 0, cookie |-> NoCookie], mw |-> Skipped,
     handler |-> "none", sent |-> NoResponse, store |-> EmptyStore]
\* session.rs:259-261, generate_id: the ids not used so far.
FreshIds == {id \in Ids : ~host.store[id].present /\ ~issued[id].present}

\* One request is handled: server.rs:327-329 clones the host for the event,
\* the handler works on the clone and the clone is dropped when it returns.
ServeRequest ==
    /\ \E req \in Requests, d \in 0..1 :
          \E new_id \in (IF req.route = 1 THEN FreshIds ELSE {"none"}) :
              LET out == serve(host, req, new_id, now, d)
              IN /\ handled' = [req |-> req, mw |-> out.mw,
                                handler |-> out.handler, sent |-> out.sent,
                                store |-> out.store]
                 /\ issued' = IF out.handler = "create"
                              THEN [issued EXCEPT ![new_id] =
                                       Session(now + d + SessionMaxAge)]
                              ELSE issued
    /\ UNCHANGED <<host, now, phase, connections, registered, last_partial,
                   served_idle, backlog, listener_ready, netVars, pc,
                   readerVars, connVars, managerVars, httpVars, dispatchVars, uploadVars>>

\* SystemTime::now() advances.
Tick ==
    /\ now < MaxTime
    /\ now' = now + 1
    /\ handled' = NoEvent
    /\ UNCHANGED <<host, issued, phase, connections, registered, last_partial,
                   served_idle, backlog, listener_ready, netVars, pc,
                   readerVars, connVars, managerVars, httpVars, dispatchVars, uploadVars>>

\* ------------------------------------------------------------ route_request
Methods == {"GET", "POST", "DELETE", "PUT"}
\* route.rs:79-89, Route, as route_request reads it, and the request's uri:
\*   uri           under /api/files, under /api/session, or another path
\*   uri_is_path   the uri is the route's path (l.186)
\*   methods       the route's methods (DELETE and PUT are in no route of
\*                 the model)
\*   static_files  the route has static files
\*   is_file       the uri is a file of the route's directory
\*                 (static_files.rs:107-112, is_directory_contain_file)
\*   cgi_config    the route has a CGI configuration
\*   redirect      the route has a redirect target
Routes ==
    {r \in [uri : {"/api/files", "/api/session", "/page"},
            uri_is_path : BOOLEAN,
            methods : SUBSET {"GET", "POST"},
            static_files : BOOLEAN, is_file : BOOLEAN,
            cgi_config : BOOLEAN, redirect : BOOLEAN] :
        r.is_file => r.static_files}
\* host.rs:186-195: the request is answered by Host::redirect.
redirects(route) ==
    /\ route.uri_is_path                                \* l.186
    /\ route.redirect                                   \* l.187
    /\ route.static_files                               \* l.188
    /\ ~route.is_file                                   \* l.189
\* host.rs:236-259: the answer to a GET outside /api/files and /api/session.
get_answer(route) ==
    IF route.static_files THEN "static"                 \* l.237-241
    ELSE IF route.cgi_config THEN "cgi"                 \* l.242-248
    ELSE "404"                                          \* l.249-258
\* host.rs:185-271, Host::route_request: which branch answers the request.
\* "handler" is the answer of the file API or of the session API to a method
\* it serves, "static" and "cgi" are the answers of those handlers.
route_answer(method, route, uploader, session_manager) ==
    IF redirects(route) THEN "301"           \* l.186-195
    ELSE IF route.uri = "/api/files"                    \* l.199-219
    THEN IF uploader
         THEN IF method \in {"GET", "POST", "DELETE"}   \* handlers.rs:236-240
              THEN "handler" ELSE "405"
         ELSE "503"
    ELSE IF route.uri = "/api/session"                  \* l.222-233
    THEN IF session_manager
         THEN IF method \in {"POST", "DELETE"}          \* handlers.rs:410-413
              THEN "handler" ELSE "405"
         ELSE "503"
    ELSE IF method = "GET" THEN get_answer(route)       \* l.236-259
    ELSE "405"                                          \* l.261-269

NotRouted ==
    [method |-> "none",
     route |-> [uri |-> "/page", uri_is_path |-> FALSE, methods |-> {},
                static_files |-> FALSE, is_file |-> FALSE,
                cgi_config |-> FALSE, redirect |-> FALSE],
     uploader |-> FALSE, session_manager |-> FALSE, answer |-> "none"]

\* --------------------------------------------------- bodies, to_string, parse
\* body.rs:14-21, Body, by variant and by the sizes body_len and Display
\* read: `size` is the byte length of the content (for a multipart form the
\* sum of the lengths of its keys, values, file names, content types and
\* file data), `fields` and `files` the numbers of fields and files of a
\* multipart form.
Body(variant, size, fields, files) ==
    [variant |-> variant, size |-> size, fields |-> fields, files |-> files]
BodyEmpty == Body("Empty", 0, 0, 0)
\* body: None (request.rs:27, response.rs:13).
NoBody == Body("None", 0, 0, 0)
Bodies ==
    {Body(v, n, 0, 0) : v \in {"Text", "Json", "FormUrlEncoded", "Binary"},
                        n \in 1..MaxBody}
    \cup {Body("Multipart", n, fields, files) :
              n \in 1..MaxBody, fields \in 0..1, files \in 0..1}
    \cup {BodyEmpty}
\* The number of decimal digits of n, the length of its Display.
RECURSIVE Digits(_)
Digits(n) == IF n < 10 THEN 1 ELSE 1 + Digits(n \div 10)
\* body.rs:236-255, Body::body_len.
body_len(body) == body.size
\* body.rs:331-353, impl Display for Body: the byte length of the text it
\* writes.  Binary data is written as "<N bytes of binary data>" and a
\* multipart form as "Multipart Form (Fields: F, Files: G)".
Display_len(body) ==
    IF body.variant = "Binary" THEN 23 + Digits(body.size)
    ELSE IF body.variant = "Multipart"
    THEN 34 + Digits(body.fields) + Digits(body.files)
    ELSE body.size

NotParsed ==
    [request |-> [method |-> "none", uri |-> "", version |-> "",
                  headers |-> <<>>, body |-> NoBody],
     result |-> [method |-> "none", uri |-> "", version |-> "",
                 headers |-> <<>>, body |-> NoBody]]
NotBuilt == [body |-> BodyEmpty, content_length |-> NoneVal, wire_len |-> 0,
             some |-> FALSE]
\* A response is built and serialised (response.rs:133-147, to_string): its
\* builder either sets content-length to body.body_len() (response.rs:81-91,
\* handlers.rs:65-70) or sets none (handlers.rs:136-139); to_string writes
\* the headers as they are and then the body's Display.
BuildResponse ==
    /\ \E body \in Bodies, sets_length \in BOOLEAN :
          built' = [body |-> body,
                    content_length |-> IF sets_length THEN body_len(body)
                                       ELSE NoneVal,
                    wire_len |-> Display_len(body),
                    some |-> TRUE]
    /\ parsed' = NotParsed
    /\ UNCHANGED <<routed, disk, served_file, netVars, pc, readerVars, connVars, now, phase,
                   connections, registered, last_partial, served_idle,
                   backlog, listener_ready, sessionVars, dispatchVars, uploadVars>>

\* request.rs:22-28, Request: the requests that are serialised.  A header is
\* its line of text.
TestRequests ==
    [method : Methods, uri : {"/", "/test"}, version : {"HTTP/1.1", "HTTP/1.0"},
     headers : {<<>>, <<"Host: localhost:8080">>},
     body : Bodies \cup {NoBody}]
\* request.rs:64-79, Request::to_string: the request line, the header
\* lines and the body's Display, of which the text keeps the length.
Request_to_string(r) ==
    [method |-> r.method, uri |-> r.uri, version |-> r.version,
     headers |-> r.headers,
     body_len |-> IF r.body = NoBody THEN 0 ELSE Display_len(r.body)]
\* httparse gives the version as the minor number of HTTP/1.x, and
\* request.rs:113 stores its to_string().
version_to_string(version) == IF version = "HTTP/1.1" THEN "1" ELSE "0"
\* request.rs:83-120, parse_request.
parse_request(text) ==
    [method |-> IF text.method \in Methods THEN text.method ELSE "GET",
     uri |-> text.uri,
     version |-> version_to_string(text.version),
     headers |-> text.headers,
     body |-> NoBody]                                   \* l.98

\* A request is serialised and the text parsed.
ParseRequest ==
    /\ \E r \in TestRequests :
          parsed' = [request |-> r,
                     result |-> parse_request(Request_to_string(r))]
    /\ built' = NotBuilt
    /\ UNCHANGED <<routed, disk, served_file, netVars, pc, readerVars, connVars, now, phase,
                   connections, registered, last_partial, served_idle,
                   backlog, listener_ready, sessionVars, dispatchVars, uploadVars>>

\* ------------------------------------------------------------ static files
\* A path is the sequence of its components, from the root of the file
\* system. Directory is ServerStaticFiles.directory.
Directory == <<"www">>
NoPath == <<>>
\* The paths serve_file is called with, the path of the configured 404 page
\* (ErrorPages.custom_pages["404"]) and the built-in template
\* (<directory>/.default/error/error_template.html).
RequestPaths ==
    {Directory \o <<"a.html">>, Directory \o <<"b.html">>,
     Directory \o <<"c.html">>}
CustomPage == Directory \o <<"errors", "404.html">>
ErrorTemplate == Directory \o <<".default", "error", "error_template.html">>
\* The other files of the model: the index of the directory, the page of the
\* directory listing, and a file that is not under the directory.
IndexName == <<"index.html">>
NoIndex == <<>>
IndexPage == Directory \o IndexName
ListingPage == Directory \o <<".default", "directory_listing.html">>
Secret == <<"secret.txt">>
\* The states of the disk and of the configuration: which paths are files,
\* and whether error_pages has a "404" entry.
Disks ==
    [files : SUBSET (RequestPaths
                     \cup {CustomPage, ErrorTemplate, IndexPage, ListingPage,
                           Secret}),
     custom_404 : BOOLEAN]
\* The directories of the disk: the root, the directory of the host (new()
\* checks it exists, static_files.rs:53) and every directory a file is in.
dirs(d) ==
    {<<>>, Directory}
        \cup UNION {{SubSeq(f, 1, n) : n \in 0..(Len(f) - 1)} : f \in d.files}
\* The file system's walk along a path: every component is entered from a
\* directory, ".." goes to the parent (the parent of the root is the root)
\* and an empty component (a doubled or trailing '/') stays. The place
\* reached, or found = FALSE when a component is entered from something
\* that is no directory.
RECURSIVE walk(_, _, _)
walk(d, cur, rest) ==
    IF rest = <<>> THEN [found |-> TRUE, path |-> cur]
    ELSE IF cur \notin dirs(d) THEN [found |-> FALSE, path |-> cur]
    ELSE IF Head(rest) = ""
    THEN walk(d, cur, Tail(rest))
    ELSE IF Head(rest) = ".."
    THEN walk(d, IF cur = <<>> THEN <<>> ELSE SubSeq(cur, 1, Len(cur) - 1),
              Tail(rest))
    ELSE walk(d, cur \o <<Head(rest)>>, Tail(rest))
\* Path::is_file and Path::is_dir (static_files.rs:87, 95, 111, 119).
is_file(d, path) ==
    LET w == walk(d, <<>>, path) IN w.found /\ w.path \in d.files
is_dir(d, path) ==
    LET w == walk(d, <<>>, path) IN w.found /\ w.path \in dirs(d)
\* static_files.rs:118-140, serve_file, called with `depth` frames on the
\* stack: the file served and the status, or the overflow of the stack when
\* the recursion goes deeper than it holds.
RECURSIVE serve_file(_, _, _, _)
serve_file(d, path, status, depth) ==
    IF depth > MaxDepth
    THEN [outcome |-> "stack overflow", file |-> NoPath, status |-> status]
    ELSE IF ~is_file(d, path)                           \* l.119
    THEN IF d.custom_404                                \* l.121-126
         THEN serve_file(d, CustomPage, "NotFound", depth + 1)
         ELSE serve_file(d, ErrorTemplate, "NotFound", depth + 1)  \* l.128-129
    ELSE [outcome |-> "Ok", file |-> path, status |-> status]      \* l.132-139

\* static_files.rs:151-160, serve_directory: the listing data is written
\* and the page of the listing is served.
serve_directory(d) == serve_file(d, ListingPage, "Raw", 1)

\* static_files.rs:79-105, serve_static, for the path of a request given as
\* its components after the leading '/' (l.83), on a ServerStaticFiles with
\* this index and this allow_directory_listing.
serve_static(d, index, allow_directory_listing, path) ==
    LET defaultPath == Directory \o <<".default", "index.html">>   \* l.80
        full_path == Directory \o path                             \* l.84
        index_path == full_path \o index                           \* l.94
    IN IF is_dir(d, full_path) /\ allow_directory_listing          \* l.87-91
       THEN serve_directory(d)
       ELSE IF /\ index # NoIndex                                  \* l.93-98
               /\ is_file(d, index_path)
               /\ ~allow_directory_listing
       THEN serve_file(d, index_path, "Raw", 1)
       ELSE IF index = NoIndex /\ full_path = Directory            \* l.100-102
       THEN serve_file(d, defaultPath, "Raw", 1)
       ELSE serve_file(d, full_path, "Raw", 1)                     \* l.104

\* The paths of the requests given to serve_static: "/", "/a.html",
\* "/missing.html", "/errors", "/errors/../a.html" and "/../secret.txt".
StaticUris ==
    {<<>>, <<"a.html">>, <<"missing.html">>, <<"errors">>,
     <<"errors", "..", "a.html">>, <<"..", "secret.txt">>}

NotServed ==
    [path |-> NoPath,
     result |-> [outcome |-> "none", file |-> NoPath, status |-> "Raw"]]
NotServedStatic ==
    [called |-> FALSE, path |-> NoPath, index |-> NoIndex,
     allow_directory_listing |-> FALSE,
     result |-> [outcome |-> "none", file |-> NoPath, status |-> "Raw"]]
\* A call of serve_file on a ServerStaticFiles whose status is Raw
\* (static_files.rs:75, the clone of host.rs:239).
ServeFile ==
    /\ \E path \in RequestPaths :
          served_file' = [path |-> path,
                          result |-> serve_file(disk, path, "Raw", 1)]
    /\ served_static' = NotServedStatic
    /\ UNCHANGED <<disk, routed, built, parsed, netVars, pc, readerVars,
                   connVars, now, phase, connections, registered,
                   last_partial, served_idle, backlog, listener_ready,
                   sessionVars, framing, lookup, uploadVars>>
\* A call of serve_static (handlers.rs:60, the handler of host.rs:239-241)
\* on a ServerStaticFiles whose status is Raw.
ServeStatic ==
    /\ \E path \in StaticUris, index \in {NoIndex, IndexName},
          allow_directory_listing \in BOOLEAN :
          served_static' =
              [called |-> TRUE, path |-> path, index |-> index,
               allow_directory_listing |-> allow_directory_listing,
               result |-> serve_static(disk, index, allow_directory_listing,
                                       path)]
    /\ served_file' = NotServed
    /\ UNCHANGED <<disk, routed, built, parsed, netVars, pc, readerVars,
                   connVars, now, phase, connections, registered,
                   last_partial, served_idle, backlog, listener_ready,
                   sessionVars, framing, lookup, uploadVars>>

\* Nothing called yet.
InitHttp ==
    /\ routed = NotRouted
    /\ built = NotBuilt
    /\ parsed = NotParsed
    /\ disk = [files |-> {}, custom_404 |-> FALSE]
    /\ served_file = NotServed
    /\ served_static = NotServedStatic

\* A call of route_request for a request whose uri matched the route, on a
\* host that has its uploader and its session manager, or neither.
RouteRequest ==
    /\ \E method \in Methods, route \in Routes, services \in BOOLEAN :
          routed' = [method |-> method, route |-> route,
                     uploader |-> services,
                     session_manager |-> services,
                     answer |-> route_answer(method, route, services,
                                             services)]
    /\ UNCHANGED <<built, parsed, disk, served_file, netVars, pc, readerVars, connVars, now, phase,
                   connections, registered, last_partial, served_idle,
                   backlog, listener_ready, sessionVars, dispatchVars, uploadVars>>

\* ------------------------------------------------------------ framing
\* The variables of the readers, the reactor, the sessions and the http
\* layer, which the calls below leave alone.
coreVars ==
    <<netVars, pc, readerVars, connVars, now, phase, connections, registered,
      last_partial, served_idle, backlog, listener_ready, sessionVars,
      httpVars>>

\* The header lines a block is made of, and the blocks: up to MaxHeaderLines
\* lines, each at most once.
FramingLines ==
    {TEChunked, ContentLengthLines[3], BadLengthLine, NoteLine, HostLine}
HeaderLists ==
    {ls \in UNION {[1..n -> FramingLines] : n \in 0..MaxHeaderLines} :
        \A i, j \in DOMAIN ls : i # j => ls[i] # ls[j]}
\* The bytes of the block: the request line, the header lines and the empty
\* line, each ended by CR LF.
RECURSIVE HeaderLineBytes(_)
HeaderLineBytes(ls) ==
    IF ls = <<>> THEN <<>>
    ELSE <<Head(ls), CR, LF>> \o HeaderLineBytes(Tail(ls))
HeaderBlock(ls) == <<RequestLine, CR, LF>> \o HeaderLineBytes(ls) \o <<CR, LF>>

\* connection.rs:52-88: the framing Connection::read_request gives the block:
\* the Content-Length when get_content_length finds one, else the request
\* ends with its headers.
read_request_type(data, headers_end) ==
    LET content_length == get_content_length(Take(data, headers_end))
    IN IF content_length # NoneVal                      \* l.56-75
       THEN [tag |-> "Standard", content_length |-> content_length]
       ELSE [tag |-> "Standard", content_length |-> 0]  \* l.76-88

NotFramed ==
    [lines |-> <<>>, decided |-> FALSE, reader |-> Unknown,
     connection |-> Unknown]
\* The headers of a request have arrived: the reader (stream.rs:252-254) and
\* the connection (connection.rs:52-56) choose the framing.
DecideFraming ==
    /\ ~framing.decided
    /\ LET data == HeaderBlock(framing.lines)
           headers_end == find_headers_end(data)
       IN framing' =
              [framing EXCEPT
                  !.decided = TRUE,
                  !.reader = determine_reader_type(data, headers_end),
                  !.connection = read_request_type(data, headers_end)]
    /\ UNCHANGED <<coreVars, served_static, lookup, uploadVars>>

\* ------------------------------------------------------------ get_route
\* The text of a uri or of a route's path is the sequence split('/') gives:
\* "/a/b" is <<"", "a", "b">>, "/a/" is <<"", "a", "">>, "/" is <<"", "">>.
\* str::trim_end_matches('/') and str::trim_start_matches("/") on it.
RECURSIVE trim_end_matches(_)
trim_end_matches(path) ==
    IF Len(path) > 1 /\ path[Len(path)] = ""
    THEN trim_end_matches(SubSeq(path, 1, Len(path) - 1))
    ELSE path
RECURSIVE trim_start_matches(_)
trim_start_matches(path) ==
    IF Len(path) > 1 /\ path[1] = ""
    THEN trim_start_matches(Tail(path))
    ELSE path
\* r.starts_with(':') (host.rs:129), on the segments of the model.
starts_with_colon(segment) == segment = ":id"
\* The number of characters of a segment and of a uri.
SegmentLen(segment) ==
    CASE segment = "" -> 0
      [] segment \in {"a", "b"} -> 1
      [] segment = ":id" -> 3
      [] segment = "aaaa" -> 4
RECURSIVE UriLen(_)
UriLen(path) ==
    IF Len(path) = 1 THEN SegmentLen(path[1])
    ELSE SegmentLen(Head(path)) + 1 + UriLen(Tail(path))

\* The uris of the requests: "/a", "/b", "/a/b", "/a/", "/" and "/aaaa".
LookupUris ==
    {<<"", "a">>, <<"", "b">>, <<"", "a", "b">>, <<"", "a", "">>,
     <<"", "">>, <<"", "aaaa">>}
\* The routes of a host (route.rs:79-89): the path, "/a", "/b", "/:id" or
\* "/a/:id", and whether the route has static files (served from
\* Directory); the hosts' lists of routes (host.rs:102-104).
LookupRoutes ==
    [path : {<<"", "a">>, <<"", "b">>, <<"", ":id">>, <<"", "a", ":id">>},
     static_files : BOOLEAN]
RouteLists == UNION {[1..n -> LookupRoutes] : n \in 0..MaxRoutes}
\* The disks of the lookups: which of <directory>/b and <directory>/a/b are
\* files.
LookupDisks ==
    [files : SUBSET {Directory \o <<"b">>, Directory \o <<"a", "b">>},
     custom_404 : {FALSE}]

\* static_files.rs:107-112, is_directory_contain_file.
is_directory_contain_file(d, path) == is_file(d, Directory \o path)

\* The first index of a set of indexes (Iterator::find), 0 for none.
first(indexes) ==
    IF indexes = {} THEN 0
    ELSE CHOOSE i \in indexes : \A j \in indexes : i <= j
\* host.rs:119-138: the segments of the route and of the path agree.
is_dynamic_match(route, path) ==
    LET path_segments == trim_end_matches(path)                 \* l.119
        route_segments == trim_end_matches(route.path)          \* l.121
    IN /\ Len(path_segments) = Len(route_segments)              \* l.123-125
       /\ \A k \in 1..Len(route_segments) :                     \* l.128-133
              starts_with_colon(route_segments[k])
                  \/ route_segments[k] = path_segments[k]
\* A lookup that takes the first route matching exactly or by its segments,
\* in one pass over the routes.
get_route_one_pass(d, routes, path) ==
    first({i \in DOMAIN routes :
              routes[i].path = path \/ is_dynamic_match(routes[i], path)})
\* host.rs:114-154, Host::get_route: the index of the route, 0 for None.
get_route(d, routes, path) ==
    LET exact == {i \in DOMAIN routes : routes[i].path = path}   \* l.115
        dynamic == {i \in DOMAIN routes :                        \* l.120-138
                       is_dynamic_match(routes[i], path)}
        file_route ==                                            \* l.140-147
            {i \in DOMAIN routes :
                /\ routes[i].static_files
                /\ is_directory_contain_file(d, trim_start_matches(path))}
    IN IF exact # {} THEN first(exact)                           \* l.115-117
       ELSE IF dynamic # {} THEN first(dynamic)                  \* l.135-137
       ELSE first(file_route)                                    \* l.149-153

\* server.rs:165-227: the answer to a complete GET request on a host
\* without session manager: route_request on the route get_route finds,
\* else 404.
request_answer(d, routes, path) ==
    LET i == get_route(d, routes, path)
    IN IF i = 0 THEN "404"                                       \* l.216-224
       ELSE route_answer(                                        \* l.185
                "GET",
                [uri |-> "/page", uri_is_path |-> routes[i].path = path,
                 methods |-> {"GET"},
                 static_files |-> routes[i].static_files,
                 is_file |-> /\ routes[i].static_files
                             /\ is_directory_contain_file(
                                    d, trim_start_matches(path)),
                 cgi_config |-> FALSE, redirect |-> FALSE],
                FALSE, FALSE)

NotLooked ==
    [routes |-> <<>>, path |-> <<"">>, done |-> FALSE, route |-> 0,
     answer |-> "none"]
\* A complete request arrives for a host: its route is looked up and the
\* request answered.
GetRoute ==
    /\ ~lookup.done
    /\ lookup' = [lookup EXCEPT
                     !.done = TRUE,
                     !.route = get_route(disk, lookup.routes, lookup.path),
                     !.answer = request_answer(disk, lookup.routes,
                                               lookup.path)]
    /\ UNCHANGED <<coreVars, served_static, framing, uploadVars>>

\* ------------------------------------------------------------ uploads
\* A file of the upload directory is <<stem, n>>: the original name for
\* n = 0 ("doc.txt"), the name with _n before the extension otherwise
\* ("doc_1.txt").
FileNames == {"doc", "img"}
\* uploader.rs:340-361, list_files: the records of the files of the
\* directory, with the ids 0, 1, ... in the order read_dir gives them, which
\* is any order. Every list of records the scan of `dir` can give.
list_files(dir) ==
    {db \in [1..Cardinality(dir) -> [id : 0..(Cardinality(dir) - 1), path : dir]] :
        /\ \A i \in DOMAIN db : db[i].id = i - 1
        /\ \A i, j \in DOMAIN db : i # j => db[i].path # db[j].path}
\* uploader.rs:268-273, generate_next_id: one more than the largest id of
\* the database, 0 for an empty one.
generate_next_id(db) ==
    IF db = <<>> THEN 0
    ELSE 1 + CHOOSE id \in {db[i].id : i \in DOMAIN db} :
                 \A i \in DOMAIN db : db[i].id <= id
\* uploader.rs:275-299, generate_unique_path: the original name, or the
\* name with the first counter that gives a path that does not exist.
generate_unique_path(dir, original_name) ==
    LET counter == CHOOSE c \in 0..Cardinality(dir) :
                       /\ <<original_name, c>> \notin dir
                       /\ \A b \in 0..(c - 1) : <<original_name, b>> \in dir
    IN <<original_name, counter>>
\* Uploader::add_file (handlers.rs:287; the steps of uploader.rs:107-126):
\* the file is written under a new path and its record, with the next id,
\* is pushed on the database. The uploader and the directory after it.
add_file(up, original_name) ==
    LET file_path == generate_unique_path(up.dir, original_name)  \* l.108
        new_file == [id |-> generate_next_id(up.database),        \* l.119-124
                     path |-> file_path]
    IN [database |-> Append(up.database, new_file),               \* l.126
        dir |-> up.dir \cup {file_path},                          \* l.116
        uploaded_files |-> Append(up.uploaded_files, new_file)]
\* handlers.rs:271-315, handle_post: every file of the form is added.
RECURSIVE handle_post(_, _)
handle_post(up, form) ==
    IF form = <<>> THEN up
    ELSE handle_post(add_file(up, Head(form)), Tail(form))
\* Uploader::delete_file (handlers.rs:331): the record with this id leaves
\* the database and its file the directory; found = FALSE when the database
\* has no such record or the file is gone.
delete_file(up, file_id) ==
    LET hits == {i \in DOMAIN up.database : up.database[i].id = file_id}
    IN IF hits = {} \/ up.database[first(hits)].path \notin up.dir
       THEN [database |-> up.database, dir |-> up.dir, found |-> FALSE,
             path |-> <<"", 0>>]
       ELSE [database |-> SelectSeq(up.database,
                                    LAMBDA f : f.id # file_id),
             dir |-> up.dir \ {up.database[first(hits)].path},
             found |-> TRUE, path |-> up.database[first(hits)].path]

\* The forms of the uploads: one or two files.
Forms == {<<n>> : n \in FileNames} \cup {<<n, o>> : n, o \in FileNames}
\* POST /api/files/upload. The handler works on a clone of the server's
\* uploader (server.rs:185, host.rs:199-209), which is dropped with the
\* handler: the server's uploader stays as it is. uploads holds the records
\* the answers gave, of the files that are still there.
Upload ==
    /\ \E form \in Forms :
          /\ Cardinality(upload_dir) + Len(form) <= MaxFiles
          /\ LET after == handle_post(
                              [database |-> database,          \* the clone
                               dir |-> upload_dir,
                               uploaded_files |-> <<>>], form)
             IN /\ upload_dir' = after.dir
                /\ uploads' = uploads
                                \cup {after.uploaded_files[i] :
                                         i \in DOMAIN after.uploaded_files}
    /\ UNCHANGED <<database, coreVars, dispatchVars>>
\* DELETE /api/files/delete/{id}, on a clone of the server's uploader too.
Delete ==
    /\ \E file_id \in 0..MaxFiles :
          LET after == delete_file([database |-> database,     \* the clone
                                    dir |-> upload_dir], file_id)
          IN /\ after.found
             /\ upload_dir' = after.dir
             /\ uploads' = {f \in uploads : f.path # after.path}
    /\ UNCHANGED <<database, coreVars, dispatchVars>>

\* No lookup, no framing decision and no upload yet; no uploader.
InitDispatch ==
    /\ framing = NotFramed
    /\ lookup = NotLooked
InitUploader ==
    /\ database = <<>>
    /\ upload_dir = {}
    /\ uploads = {}

\* ------------------------------------------------------------ SessionManager
\* The Cookie header values given to get_session: one or two cookies, each
\* the session cookie or another one, or an empty text.
OtherCookieName == "theme"
CookieStrs ==
    LET pairs == {CookiePair(n, id) : n \in {CookieName, OtherCookieName},
                                      id \in Ids}
    IN {<<>>} \cup {<<p>> : p \in pairs} \cup {<<p, q>> : p, q \in pairs}
NoCall ==
    [op |-> "none", header |-> <<>>, id |-> "none", time |-> 0,
     before |-> EmptyStore, result |-> OkNone]
\* session.rs:259-261, generate_id, for the manager called directly.
ManagerFreshIds == {id \in Ids : ~issued[id].present /\ id \notin destroyed}

\* session.rs:139-169, a call of create_session.
CreateSession ==
    /\ \E new_id \in ManagerFreshIds :
          /\ manager' = create_session(manager, new_id, now)
          /\ issued' = [issued EXCEPT ![new_id] = manager'[new_id]]
          /\ call' = [op |-> "create", header |-> <<>>, id |-> new_id,
                      time |-> now, before |-> manager,
                      result |-> OkSome(new_id)]
    /\ UNCHANGED <<destroyed, host, handled, now, phase, connections,
                   registered, last_partial, served_idle, backlog,
                   listener_ready, netVars, pc, readerVars, connVars,
                   httpVars, dispatchVars, uploadVars>>

\* session.rs:171-184, a call of get_session with a Cookie header.
GetSession ==
    /\ \E cookie_str \in CookieStrs :
          LET got == get_session(manager, [name |-> HeaderNameCookie,
                                           value |-> cookie_str], now)
          IN /\ manager' = got.store
             /\ call' = [op |-> "get", header |-> cookie_str, id |-> "none",
                         time |-> now, before |-> manager,
                         result |-> got.result]
    /\ UNCHANGED <<destroyed, issued, host, handled, now, phase, connections,
                   registered, last_partial, served_idle, backlog,
                   listener_ready, netVars, pc, readerVars, connVars,
                   httpVars, dispatchVars, uploadVars>>

\* session.rs:186-199, a call of destroy_session.
DestroySession ==
    /\ \E session_id \in Ids :
          /\ manager' = destroy_session(manager, session_id)
          /\ destroyed' = destroyed \cup {session_id}
          /\ call' = [op |-> "destroy", header |-> <<>>, id |-> session_id,
                      time |-> now, before |-> manager, result |-> OkNone]
    /\ UNCHANGED <<issued, host, handled, now, phase, connections,
                   registered, last_partial, served_idle, backlog,
                   listener_ready, netVars, pc, readerVars, connVars,
                   httpVars, dispatchVars, uploadVars>>

\* SystemTime::now() advances between two calls.
ManagerTick ==
    /\ now < MaxTime
    /\ now' = now + 1
    /\ UNCHANGED <<phase, connections, registered, last_partial, served_idle,
                   backlog, listener_ready, netVars, pc, readerVars, connVars,
                   sessionVars, httpVars, dispatchVars, uploadVars>>

\* SessionManager::new(config, Box::new(MemorySessionStore::new())).
InitManager ==
    /\ manager = EmptyStore
    /\ destroyed = {}
    /\ call = NoCall

\* Server::add_host has been given a host without a session manager.
InitSessions ==
    /\ host = [session_manager |-> FALSE, store |-> EmptyStore]
    /\ issued = EmptyStore
    /\ handled = NoEvent
    /\ InitManager
    /\ InitHttp

\* Server::new (server.rs:48-60): no connection yet.
InitServer ==
    /\ now = 0
    /\ phase = "wait"
    /\ connections = [fd \in Fds |-> NoConnection]
    /\ registered = {}
    /\ last_partial = [fd \in Fds |-> NoneVal]
    /\ served_idle = [fd \in Fds |-> FALSE]
    /\ backlog = 0
    /\ listener_ready = FALSE

Init ==
    /\ reqs \in Workloads
    /\ wire = WireOf(reqs)
    /\ InitStream
    /\ InitServer
    /\ InitDispatch
    /\ InitUploader
    /\ InitSessions

Next == Deliver \/ PeerClose \/ ReadNext \/ Reset

Spec == Init /\ [][Next]_vars

\* ------------------------------------------------------------ Connection
\* connection.rs:36-110, the loop of read_request from one stream.read on.
\* `c` holds the connection's buffer, the socket, the result and the request
\* returned.  A WouldBlock with bytes in the buffer is answered by `continue`:
\* the call reads again at once and does not return ("BusyWait").
RECURSIVE read_request(_)
read_request(c) ==
    IF c.sock = <<>>
    THEN IF peer_closed THEN [c EXCEPT !.ret = "UnexpectedEof"]
         ELSE IF c.buffer # <<>> THEN [c EXCEPT !.ret = "BusyWait"]
         ELSE [c EXCEPT !.ret = "WouldBlock"]
    ELSE LET buf == c.buffer \o Head(c.sock)
             rest == Tail(c.sock)
             headers_end == find_headers_end(buf)
             content_length ==
                 IF headers_end = NoneVal THEN NoneVal
                 ELSE get_content_length(Take(buf, headers_end))
             total_length == headers_end + content_length
         IN IF headers_end # NoneVal /\ content_length # NoneVal
               /\ Len(buf) >= total_length
            THEN [c EXCEPT !.buffer = <<>>, !.sock = rest, !.ret = "Ok",
                           !.request = Complete(Take(buf, total_length),
                                                headers_end)]
            ELSE IF headers_end # NoneVal /\ content_length = NoneVal
            THEN [c EXCEPT !.buffer = <<>>, !.sock = rest, !.ret = "Ok",
                           !.request = Complete(Take(buf, headers_end),
                                                headers_end)]
            ELSE IF Len(buf) > MAX_REQUEST_SIZE
            THEN [c EXCEPT !.buffer = <<>>, !.sock = rest,
                           !.ret = "RequestTooLarge"]
            ELSE read_request([c EXCEPT !.buffer = buf, !.sock = rest])

ConnSelf ==
    [buffer |-> c_buffer, sock |-> sock, ret |-> "None",
     request |-> AwaitingHeaders]

ConnStore(r) ==
    /\ c_buffer' = r.buffer
    /\ sock' = r.sock
    /\ c_ret' = r.ret
    /\ served' = IF r.ret = "Ok" THEN Append(served, r.request) ELSE served
    /\ pc' = IF r.ret = "BusyWait" THEN "busy_wait" ELSE "reactor"

\* A readiness event of the connection: the reactor calls read_request.
ReadRequest ==
    /\ pc = "reactor"
    /\ ConnStore(read_request(ConnSelf))
    /\ UNCHANGED <<reqs, wire, peer_closed, buffer, state, reader_type,
                   current_chunk_size, ret, reactorVars>>

\* The loop of a call that is busy-waiting reads again: bytes have arrived
\* or the peer has closed.
BusyWaitRead ==
    /\ pc = "busy_wait"
    /\ sock # <<>> \/ peer_closed
    /\ ConnStore(read_request(ConnSelf))
    /\ UNCHANGED <<reqs, wire, peer_closed, buffer, state, reader_type,
                   current_chunk_size, ret, reactorVars>>

ConnNext == Deliver \/ PeerClose \/ ReadRequest \/ BusyWaitRead

ConnSpec == Init /\ [][ConnNext]_vars

\* ------------------------------------------------------------ claims, reader
\* The request the reader is working on.
CurReq == reqs[Min(Len(served) + 1, Len(reqs))]
\* Every byte the client sent has been read and the call has returned.
AllRead == wire = <<>> /\ sock = <<>> /\ pc = "reactor"
\* The buffer holds the first part of a chunk-size line and no chunk is open.
PartialSizeLine ==
    /\ state.tag = "ProcessingBody" /\ reader_type.tag = "Chunked"
    /\ current_chunk_size = NoneVal
    /\ buffer # <<>> /\ find_line_end(buffer) = NoneVal

\* C1: a Content-Length request completes with exactly its declared body,
\* however its bytes are split across reads and readiness events: once every
\* byte has been read, the reader is Complete and the body is the bytes sent.
C1_StandardBodyIntact ==
    (Len(reqs) = 1 /\ CurReq.kind = "std" /\ served = <<>> /\ AllRead)
        => (state.tag = "Complete" /\ get_body(state) = BodyOf(CurReq))

\* C2: a completed request has headers_end <= its length, and its body length
\* is the declared Content-Length or the sum of the chunk sizes.
C2_CompletedBodyLength ==
    (state.tag = "Complete" /\ served = <<>>)
        => /\ state.headers_end <= Len(state.data)
           /\ Len(get_body(state)) =
                 (IF CurReq.kind = "chunked" THEN SumSeq(CurReq.chunks)
                  ELSE CurReq.len)

\* C3: a chunked request with a chunk-size line split across two reads
\* completes: when the rest of the request has arrived, read_next is called
\* and returns Complete.
C3_SplitSizeLineCompletes ==
    (PartialSizeLine /\ wire = <<>> /\ sock # <<>>)
        => (pc = "reactor" /\ read_next(Self).ret = "Complete")

\* C5: preparing the reader for the next request discards no byte that
\* follows the completed request: the bytes left in the buffer after a
\* Content-Length request are still there after reset.
C5_ResetKeepsLeftover ==
    [][(state.tag = "Complete" /\ reader_type.tag = "Standard"
        /\ state'.tag = "AwaitingHeaders") => buffer' = buffer]_vars

\* Bytes the reader holds: at least the larger of its buffer and the data of
\* its state.
HeldBytes == Max(Len(buffer), Len(state.data))

\* C6: the bytes a connection holds (its buffer, its accumulated request
\* data) never exceed the maximum request size.
C6_BufferWithinMax == HeldBytes <= MAX_REQUEST_SIZE

\* C40: once the reader is Complete, a call of read_next returns the
\* completed request again and takes no byte from the socket, the state
\* changes only by reset, and reset leaves the reader in AwaitingHeaders
\* with no chunk size pending and no reader type chosen.
C40_CompleteUntilReset ==
    [][state.tag = "Complete" =>
          /\ ReadNext => (ret' = "Complete" /\ state' = state
                           /\ sock' = sock /\ buffer' = buffer)
          /\ Len(sock') >= Len(sock) /\ Take(sock', Len(sock)) = sock
          /\ state' # state =>
                 (Reset /\ state' = AwaitingHeaders
                  /\ current_chunk_size' = NoneVal
                  /\ reader_type' = Unknown)]_vars
\* The reader is Complete, its last call returned the request, and bytes of
\* the next request wait in the socket.
C40_Witness ==
    state.tag = "Complete" /\ ret = "Complete" /\ sock # <<>>

\* ------------------------------------------------------------ claims, Connection
\* C4: handling a readiness event always gives control back to the reactor:
\* no call stays in its read loop when the socket would block.
C4_ControlReturnsToReactor == pc = "reactor"

ReqTotal == Len(WireBytes(CurReq))

\* C7: a request of exactly the maximum request size is parsed and served, and
\* a request one byte larger is rejected as too large, never served.
C7_SizeBoundary ==
    (Len(reqs) = 1 /\ CurReq.kind = "std")
        => /\ (ReqTotal = MAX_REQUEST_SIZE /\ AllRead /\ ~peer_closed)
                  => served = <<Complete(WireBytes(CurReq), 8)>>
           /\ ReqTotal = MAX_REQUEST_SIZE + 1
                  => (served = <<>> /\ c_ret # "Ok")

\* ------------------------------------------------------------ Server
\* The server_name of the hosts of Server::hosts (server.rs:39, 75-79): the
\* model has one host, the one whose listener accepts the connections.
ServerNames == {"localhost"}
\* connection.rs:24-34, Connection::new, with the server_name of the host of
\* the listener (server.rs:101, 145).
NewConnection(t) ==
    [open |-> TRUE, start_time |-> t, keep_alive |-> TRUE,
     host_name |-> CHOOSE name \in ServerNames : TRUE]

\* close_connection that removes the connection from the map and leaves the
\* fd in the epoll interest list.
close_connection_map_only(srv, client_fd, epoll_ok) ==
    [srv EXCEPT !.connections[client_fd] = NoConnection,
                !.last_partial[client_fd] = NoneVal,
                !.served_idle[client_fd] = FALSE]

\* server.rs:256-274, close_connection.  epoll_ctl(EPOLL_CTL_DEL) fails
\* (epoll_ok = FALSE): the error is returned and the map keeps the
\* connection.  `srv` is [connections, registered, last_partial, served_idle].
close_connection(srv, client_fd, epoll_ok) ==
    IF ~epoll_ok THEN srv
    ELSE [srv EXCEPT !.connections[client_fd] = NoConnection,
                     !.registered = srv.registered \ {client_fd},
                     !.last_partial[client_fd] = NoneVal,
                     !.served_idle[client_fd] = FALSE]

Srv == [connections |-> connections, registered |-> registered,
        last_partial |-> last_partial, served_idle |-> served_idle]

SrvStore(srv) ==
    /\ connections' = srv.connections
    /\ registered' = srv.registered
    /\ last_partial' = srv.last_partial
    /\ served_idle' = srv.served_idle

\* A client connects to the listener (host.rs:44-55): the connection waits
\* in the accept queue and the listener, registered edge-triggered
\* (server.rs:34, 84-92), has an event to report.
Connect ==
    /\ backlog < MaxBacklog
    /\ backlog' = backlog + 1
    /\ listener_ready' = TRUE
    /\ UNCHANGED <<now, phase, connections, registered, last_partial,
                   served_idle, netVars, pc, readerVars, connVars, sessionVars,
                   httpVars, dispatchVars, uploadVars>>

\* server.rs:304-311: epoll_wait returns, at once or after time has passed.
EpollWait ==
    /\ phase = "wait"
    /\ \E d \in 0..1 :
          /\ now + d <= MaxTime
          /\ now' = now + d
    /\ phase' = "events"
    /\ UNCHANGED <<connections, registered, last_partial, served_idle,
                   backlog, listener_ready, netVars, pc, readerVars, connVars, sessionVars,
                   httpVars, dispatchVars, uploadVars>>

\* What one call of handle_new_connection meets:
\*   accepted      accept, set_nonblocking and epoll_ctl(ADD) succeed
\*   accept_error  listener.accept() fails (host.rs:59); nothing is taken
\*                 from the queue
\*   setup_error   set_nonblocking or epoll_ctl(ADD) fails (server.rs:125-141):
\*                 the accepted stream is dropped
AcceptOutcomes == {"accepted", "accept_error", "setup_error"}

\* server.rs:99-150, handle_new_connection, called once for a listener event
\* (server.rs:322-325): one accept.  The accepted socket gets a free fd, is
\* added to epoll and to the map.  The event is consumed, whatever is left in
\* the queue.
HandleNewConnection ==
    /\ phase = "events"
    /\ listener_ready
    /\ listener_ready' = FALSE
    /\ \E a \in AcceptOutcomes :
          \/ /\ a = "accepted"
             /\ \E fd \in Fds :
                   /\ ~InMap(fd)
                   /\ fd \notin registered
                   /\ SrvStore([Srv EXCEPT
                          !.connections[fd] = NewConnection(now),
                          !.registered = registered \cup {fd},
                          !.last_partial[fd] = NoneVal,
                          !.served_idle[fd] = FALSE])
             /\ backlog' = backlog - 1
          \/ /\ a = "accept_error"
             /\ SrvStore(Srv)
             /\ backlog' = backlog
          \/ /\ a = "setup_error"
             /\ SrvStore(Srv)
             /\ backlog' = backlog - 1
    /\ UNCHANGED <<now, phase, netVars, pc, readerVars, connVars, sessionVars,
                   httpVars, dispatchVars, uploadVars>>

\* What Connection::handle_event gives server.rs:161 for a client event, and
\* what the dispatch of a completed request meets:
\*   ev        Complete | AwaitingRequest | Error | WouldBlock | IoError
\*   path      (Complete) middleware_reject | handled | handler_error | no_route
\*   conn      (Complete) the request's Connection header, absent or its value
\*   write     (Complete) result of send_response: ok | would_block | error,
\*             none when no response is written
\*   bytes     (AwaitingRequest, WouldBlock) bytes were read from the socket
\*   epoll_ok  epoll_ctl(EPOLL_CTL_DEL) succeeds if the connection is closed
\* The Connection header of a request: absent, or one of these values.
ConnectionHeaders == {"absent", "keep-alive", "Keep-Alive", "close", "upgrade"}
\* str::to_lowercase on those values.
to_lowercase(value) == IF value = "Keep-Alive" THEN "keep-alive" ELSE value
\* server.rs:343-348, want_keep_alive.
want_keep_alive(conn) ==
    IF conn = "absent" THEN TRUE ELSE to_lowercase(conn) = "keep-alive"
Paths == {"middleware_reject", "handled", "handler_error", "no_route"}
Writes == {"ok", "would_block", "error"}
Outcomes ==
    [ev : {"Complete"}, path : Paths \ {"handler_error"},
     conn : ConnectionHeaders, write : Writes, bytes : {TRUE},
     epoll_ok : BOOLEAN]
    \cup [ev : {"Complete"}, path : {"handler_error"},
          conn : ConnectionHeaders, write : {"none"}, bytes : {TRUE},
          epoll_ok : BOOLEAN]
    \cup [ev : {"AwaitingRequest", "WouldBlock"}, path : {"handled"},
          conn : {"absent"}, write : {"none"}, bytes : BOOLEAN,
          epoll_ok : {TRUE}]
    \cup [ev : {"Error", "IoError"}, path : {"handled"}, conn : {"absent"},
          write : {"none"}, bytes : {FALSE}, epoll_ok : BOOLEAN]

\* server.rs:174, 200, 220: the handler calls send_response.
ResponseWritten(o) == o.ev = "Complete" /\ o.path # "handler_error"

\* server.rs:192-197: the headers the handler adds to a route's response.
CorsHeaders ==
    {<<"Access-Control-Allow-Origin", "*">>,
     <<"Access-Control-Allow-Methods", "GET, POST, DELETE, OPTIONS">>,
     <<"Access-Control-Allow-Headers", "Content-Type">>}
\* server.rs:173-227: the Connection and CORS headers of the response the
\* event writes.  They are added to the response of route_request
\* (l.186-198); the middleware's error (l.174) and Response::not_found
\* (l.219-220) are sent as they are.
sent_headers(srv, fd, o) ==
    IF o.ev = "Complete" /\ o.path = "handled"
    THEN {<<"Connection",
            IF srv.connections[fd].keep_alive /\ want_keep_alive(o.conn)
            THEN "keep-alive" ELSE "close">>} \cup CorsHeaders
    ELSE {}

\* server.rs:156-250: the value of should_close where it is tested (l.248).
\* A failed write sets it (l.177, 203, 223), and l.230 then overwrites it
\* with !keep_alive; the middleware rejection returns at l.180, before l.248.
should_close(o) ==
    IF o.ev = "Complete"
    THEN IF o.path = "middleware_reject" THEN FALSE
         ELSE ~want_keep_alive(o.conn)
    ELSE o.ev \in {"Error", "IoError"}       \* server.rs:236, 242-245

\* server.rs:153-253, handle_connection_event.
handle_connection_event(srv, fd, t, o) ==
    LET after ==
            IF o.ev = "Complete"
            THEN IF o.path = "middleware_reject"
                 THEN [srv EXCEPT !.last_partial[fd] = NoneVal,
                                  !.served_idle[fd] = FALSE]
                 ELSE [srv EXCEPT                \* server.rs:228-229
                          !.connections[fd].start_time = t,
                          !.connections[fd].keep_alive = want_keep_alive(o.conn),
                          !.last_partial[fd] = NoneVal,
                          !.served_idle[fd] = (ResponseWritten(o)
                                               /\ o.write = "ok")]
            ELSE IF o.ev \in {"AwaitingRequest", "WouldBlock"} /\ o.bytes
            THEN [srv EXCEPT !.last_partial[fd] = t,
                             !.served_idle[fd] = FALSE]
            ELSE srv
    IN IF should_close(o)                        \* server.rs:248-250
       THEN close_connection(after, fd, o.epoll_ok)
       ELSE after

\* server.rs:326-331: an event of a client fd of the interest list.  The
\* connection and its host are looked up (l.327-328); a lookup that fails
\* ends Server::run ("stopped"), by the panic of unwrap() or by the error
\* `?` returns.
ConnectionEvent ==
    /\ phase = "events"
    /\ \E fd \in registered, o \in Outcomes :
          IF InMap(fd) /\ connections[fd].host_name \in ServerNames
          THEN /\ SrvStore(handle_connection_event(Srv, fd, now, o))
               /\ phase' = phase
          ELSE /\ SrvStore(Srv)
               /\ phase' = "stopped"
    /\ UNCHANGED <<now, backlog, listener_ready, netVars, pc,
                   readerVars, connVars, sessionVars,
                   httpVars, dispatchVars, uploadVars>>

\* server.rs:277-291: the fds the sweep selects.
TimedOut(srv, t) ==
    {fd \in Fds : srv.connections[fd].open
                  /\ t - srv.connections[fd].start_time > TIMEOUT_DURATION}

RECURSIVE CloseAll(_, _)
CloseAll(srv, fds) ==
    IF fds = {} THEN srv
    ELSE LET fd == CHOOSE f \in fds : TRUE
         IN CloseAll(close_connection(srv, fd, TRUE), fds \ {fd})

\* server.rs:276-297, cleanup_timeouts.  The selected fds are closed in the
\* map's iteration order and the first close that fails ends the sweep:
\* `closed` are the fds closed before that, all of them when none fails.
cleanup_timeouts(srv, t, closed) == CloseAll(srv, closed)

CleanupTimeouts ==
    /\ phase = "events"
    /\ \E closed \in SUBSET TimedOut(Srv, now) :
          SrvStore(cleanup_timeouts(Srv, now, closed))
    /\ phase' = "wait"
    /\ UNCHANGED <<now, backlog, listener_ready, netVars, pc, readerVars,
                   connVars, sessionVars,
                   httpVars, dispatchVars, uploadVars>>

ReactorInit ==
    /\ reqs = <<BareReq>>
    /\ wire = <<>>
    /\ InitStream
    /\ InitServer
    /\ InitDispatch
    /\ InitUploader
    /\ InitSessions

ReactorNext ==
    \/ Connect
    \/ EpollWait
    \/ HandleNewConnection
    \/ ConnectionEvent
    \/ CleanupTimeouts

ReactorSpec == ReactorInit /\ [][ReactorNext]_vars

\* ------------------------------------------------------------ sessions, runs
SessionInit ==
    /\ reqs = <<BareReq>>
    /\ wire = <<>>
    /\ InitStream
    /\ InitServer
    /\ InitDispatch
    /\ InitUploader
    /\ host \in Hosts
    /\ issued = EmptyStore
    /\ handled = NoEvent
    /\ InitManager
    /\ InitHttp

SessionNext == ServeRequest \/ Tick

SessionSpec == SessionInit /\ [][SessionNext]_vars

RouteInit ==
    /\ reqs = <<BareReq>>
    /\ wire = <<>>
    /\ InitStream
    /\ InitServer
    /\ InitDispatch
    /\ InitUploader
    /\ InitSessions

RouteNext == RouteRequest

RouteSpec == RouteInit /\ [][RouteNext]_vars

HttpInit ==
    /\ reqs = <<BareReq>>
    /\ wire = <<>>
    /\ InitStream
    /\ InitServer
    /\ InitDispatch
    /\ InitUploader
    /\ InitSessions

HttpNext == BuildResponse \/ ParseRequest

HttpSpec == HttpInit /\ [][HttpNext]_vars

StaticInit ==
    /\ reqs = <<BareReq>>
    /\ wire = <<>>
    /\ InitStream
    /\ InitServer
    /\ InitDispatch
    /\ InitUploader
    /\ host = [session_manager |-> FALSE, store |-> EmptyStore]
    /\ issued = EmptyStore
    /\ handled = NoEvent
    /\ InitManager
    /\ routed = NotRouted
    /\ built = NotBuilt
    /\ parsed = NotParsed
    /\ disk \in Disks
    /\ served_file = NotServed
    /\ served_static = NotServedStatic

StaticNext == ServeFile \/ ServeStatic

StaticSpec == StaticInit /\ [][StaticNext]_vars

ManagerInit ==
    /\ reqs = <<BareReq>>
    /\ wire = <<>>
    /\ InitStream
    /\ InitServer
    /\ InitDispatch
    /\ InitUploader
    /\ InitSessions

ManagerNext == CreateSession \/ GetSession \/ DestroySession \/ ManagerTick

ManagerSpec == ManagerInit /\ [][ManagerNext]_vars

\* The header blocks of the requests are drawn, and the framing decided.
FramingInit ==
    /\ reqs = <<BareReq>>
    /\ wire = <<>>
    /\ InitStream
    /\ InitServer
    /\ InitSessions
    /\ framing \in {[NotFramed EXCEPT !.lines = ls] : ls \in HeaderLists}
    /\ lookup = NotLooked
    /\ InitUploader

FramingNext == DecideFraming

FramingSpec == FramingInit /\ [][FramingNext]_vars

\* The routes of the host, the uri of the request and the files of the
\* directory are drawn, and the request is looked up and answered.
HostInit ==
    /\ reqs = <<BareReq>>
    /\ wire = <<>>
    /\ InitStream
    /\ InitServer
    /\ host = [session_manager |-> FALSE, store |-> EmptyStore]
    /\ issued = EmptyStore
    /\ handled = NoEvent
    /\ InitManager
    /\ routed = NotRouted
    /\ built = NotBuilt
    /\ parsed = NotParsed
    /\ disk \in LookupDisks
    /\ served_file = NotServed
    /\ served_static = NotServedStatic
    /\ framing = NotFramed
    /\ lookup \in {[NotLooked EXCEPT !.routes = routes, !.path = path] :
                      routes \in RouteLists, path \in LookupUris}
    /\ InitUploader

HostNext == GetRoute

HostSpec == HostInit /\ [][HostNext]_vars

\* The server starts on an upload directory with some files: its uploader
\* holds the records of the scan (Uploader::new, uploader.rs:303-311).
UploadInit ==
    /\ reqs = <<BareReq>>
    /\ wire = <<>>
    /\ InitStream
    /\ InitServer
    /\ InitSessions
    /\ InitDispatch
    /\ upload_dir \in SUBSET {<<n, 0>> : n \in FileNames}
    /\ database \in list_files(upload_dir)
    /\ uploads = {}

UploadNext == Upload \/ Delete

UploadSpec == UploadInit /\ [][UploadNext]_vars

\* ------------------------------------------------------------ claims, Server
Age(fd) == now - connections[fd].start_time
\* The step is a timeout sweep.
SweepStep == phase = "events" /\ phase' = "wait"

\* C8: after every timeout sweep the map holds no connection whose
\* last-activity timestamp is older than now minus the idle timeout.
C8_NoStaleAfterSweep ==
    phase = "wait" => \A fd \in Fds : InMap(fd) => Age(fd) <= TIMEOUT_DURATION

\* C9: the idle window restarts at every byte: a connection that received
\* bytes of a still incomplete request at time t is not closed by the sweep
\* before t + the idle timeout.
C9_WindowRestartsAtEveryByte ==
    [][\A fd \in Fds :
          (SweepStep /\ InMap(fd) /\ last_partial[fd] # NoneVal
           /\ ~connections'[fd].open)
              => now - last_partial[fd] >= TIMEOUT_DURATION]_vars

\* C10: the sweep closes a connection once its idle time is greater than the
\* idle timeout and never while it is smaller.
C10_ClosedAtBoundary ==
    [][\A fd \in Fds :
          (SweepStep /\ InMap(fd))
              => /\ Age(fd) > TIMEOUT_DURATION => ~connections'[fd].open
                 /\ Age(fd) < TIMEOUT_DURATION => connections'[fd].open]_vars

\* C11: a connection that has served a request and then stays idle for the
\* 31 seconds of the test has been closed by the server when the next sweep
\* is over (the test's request asks for keep-alive).
C11_ClosedAfterTestIdle ==
    \A fd \in Fds :
        (phase = "wait" /\ served_idle[fd] /\ connections[fd].keep_alive
         /\ Age(fd) = IDLE_IN_TEST)
            => ~InMap(fd)

\* C12: handling a listener event accepts every connection pending on the
\* listener: when an accept has succeeded and the event is consumed, the
\* accept queue is empty.
C12_AcceptsUntilWouldBlock ==
    [][(listener_ready /\ ~listener_ready' /\ backlog' < backlog)
           => backlog' = 0]_vars

\* The map after the handler has run for outcome o on fd.
AfterEvent(fd, o) == handle_connection_event(Srv, fd, now, o)
\* The handler is about to run for a client event on fd.
EventOn(fd) == phase = "events" /\ InMap(fd)

\* C13: when writing a response fails with an error other than would-block,
\* the connection is closed (removed from the map), whether or not the
\* request asked for keep-alive.
C13_WriteErrorCloses ==
    \A fd \in Fds, o \in Outcomes :
        (EventOn(fd) /\ o.write = "error" /\ o.epoll_ok)
            => ~AfterEvent(fd, o).connections[fd].open

\* C14: a response whose write would block (it is written partially or not
\* at all) causes the connection to be closed.
C14_PartialWriteCloses ==
    \A fd \in Fds, o \in Outcomes :
        (EventOn(fd) /\ o.write = "would_block" /\ o.epoll_ok)
            => ~AfterEvent(fd, o).connections[fd].open

\* C15: when the handler or the parser returns an error for a request, an
\* error response is written and the connection is closed, also when the
\* request asked for keep-alive.
C15_ErrorAnsweredAndClosed ==
    \A fd \in Fds, o \in Outcomes :
        (EventOn(fd) /\ o.epoll_ok
         /\ (o.ev = "Error" \/ (o.ev = "Complete" /\ o.path = "handler_error")))
            => /\ ResponseWritten(o)
               /\ ~AfterEvent(fd, o).connections[fd].open

\* The claims below are about an event that completes a request and whose
\* close, if any, succeeds.
Completes(fd, o) == EventOn(fd) /\ o.ev = "Complete" /\ o.epoll_ok

\* C24: after the response to a request the connection is in the map
\* exactly when the request carried no `Connection: close`.
C24_StaysUnlessClose ==
    \A fd \in Fds, o \in Outcomes :
        (Completes(fd, o) /\ ResponseWritten(o))
            => (AfterEvent(fd, o).connections[fd].open
                    <=> to_lowercase(o.conn) # "close")

\* C25: a request with `Connection: keep-alive` on a connection whose
\* earlier requests asked the same is answered on the connection, the
\* response carries `Connection: keep-alive`, and the connection stays.
C25_KeepAliveAnswered ==
    \A fd \in Fds, o \in Outcomes :
        (/\ Completes(fd, o)
         /\ connections[fd].keep_alive
         /\ o.conn = "keep-alive"
         /\ o.write \in {"ok", "none"})
            => /\ ResponseWritten(o)
               /\ <<"Connection", "keep-alive">> \in sent_headers(Srv, fd, o)
               /\ AfterEvent(fd, o).connections[fd].open

\* C26: every response the server writes carries the three CORS headers.
C26_CorsOnEveryResponse ==
    \A fd \in Fds, o \in Outcomes :
        (Completes(fd, o) /\ ResponseWritten(o))
            => CorsHeaders \subseteq sent_headers(Srv, fd, o)

\* C39: every client fd that can deliver a readiness event has an entry in
\* the connection map, bound to the name of a host of the server: the lookup
\* of Server::run for a client event never fails and never ends the loop.
C39_EventFdsAreConnections ==
    /\ phase # "stopped"
    /\ \A fd \in registered :
          InMap(fd) /\ connections[fd].host_name \in ServerNames
\* A client event has been handled on a connection that stays: its request
\* was answered and the fd is still registered and in the map.
C39_Witness ==
    \E fd \in registered : InMap(fd) /\ served_idle[fd]

\* ------------------------------------------------------------ claims, sessions
\* The route of the last request handled.
HandledRoute == RouteTable[handled.req.route]
\* The last request handled was for a route that requires a session.
HandledRequired ==
    handled.req.route # 0 /\ HandledRoute.session_required = "Some(true)"
\* The Cookie header of the session id, as the middleware looks for it.
CookieOf(id) ==
    [name |-> HeaderNameCookie, value |-> <<CookiePair(CookieName, id)>>]
\* The session id the cookie of the last request handled carries.
HandledId == Cookie_parse(handled.req.cookie.value).value

\* C16: on a route with session_required = true no handler is invoked for a
\* request unless the session manager's lookup gave the middleware a
\* non-expired session for it, whatever the host, also one without a
\* session manager.
C16_HandlerNeedsSession ==
    (HandledRequired /\ handled.handler \in {"create", "destroy", "static"})
        => (handled.mw.tag = "Ok" /\ handled.mw.session # "None")

\* C17: a session that POST /api/session/create has answered with is in the
\* host's store for as long as it has not expired, and a request that
\* carries its cookie on a session route resolves to it.
C17_CreatedSessionStays ==
    \A id \in Ids :
        (issued[id].present /\ ~is_expired(issued[id], now))
            => /\ host.store[id] = issued[id]
               /\ (HandledRequired /\ handled.req.cookie = CookieOf(id))
                      => handled.mw = OkSome(id)

\* C18: DELETE /api/session/delete with the Cookie of a session that exists
\* and has not expired is answered 200 with a Set-Cookie of the same name,
\* an empty value and Max-Age=0, and the store no longer has the session.
C18_DeleteAnswers200 ==
    (/\ handled.req.route = 2
     /\ handled.req.cookie # NoCookie
     /\ host.session_manager
     /\ host.store[HandledId].present
     /\ ~is_expired(host.store[HandledId], now + 1))
        => /\ handled.sent = HttpResponse(200, "None", DestroyCookie, FALSE)
           /\ ~handled.store[HandledId].present

\* C19: a request without a Cookie header on a route with session_required =
\* true and session_redirect = U, to a host with a session manager, is
\* answered 302 with Location U and an empty body.
C19_NoCookieRedirects ==
    (/\ HandledRequired
     /\ host.session_manager
     /\ HandledRoute.session_redirect # "None"
     /\ handled.req.cookie = NoCookie)
        => /\ handled.sent.kind = "http"
           /\ handled.sent.status = 302
           /\ handled.sent.location = HandledRoute.session_redirect
           /\ handled.sent.body_empty

\* C20: when the middleware fails on a cookie whose session the store has
\* (the session has expired), it fails with the redirect error carrying the
\* route's session_redirect if the route has one, and with the unauthorized
\* error only if it has none.
C20_ExpiredRedirects ==
    (/\ HandledRequired
     /\ host.session_manager
     /\ handled.req.cookie.name = HeaderNameCookie
     /\ host.store[HandledId].present
     /\ handled.mw.tag = "Err")
        => IF HandledRoute.session_redirect # "None"
           THEN handled.mw = Err("SessionExpiredRedirect",
                                 <<HandledRoute.session_redirect>>)
           ELSE handled.mw.error = "SessionExpired"

\* ------------------------------------------------------------ claims, SessionManager
\* The session of the store before the last call that the id names.
Before(id) == call.before[id]
\* The header of the last call has the session cookie once, at place i.
OnlySessionCookieAt(i) ==
    /\ i \in DOMAIN call.header
    /\ \A j \in DOMAIN call.header :
           (call.header[j].name = CookieName) <=> (j = i)

\* C21: get_session returns a session only when the header has a cookie of
\* the configured name whose value is the session's id, and it returns the
\* session of that cookie wherever the cookie stands among the others.
C21_NamedCookieOnly ==
    call.op = "get"
        => /\ call.result.session # "None"
                  => \E i \in DOMAIN call.header :
                         call.header[i]
                             = CookiePair(CookieName, call.result.session)
           /\ \A i \in DOMAIN call.header :
                  (/\ OnlySessionCookieAt(i)
                   /\ Before(call.header[i].value).present
                   /\ ~is_expired(Before(call.header[i].value), call.time))
                      => call.result = OkSome(call.header[i].value)

\* C22: the session get_session returns has no expires_at or one strictly
\* greater than the time of the call.
C22_ReturnedNotExpired ==
    (call.op = "get" /\ call.result.session # "None")
        => \/ Before(call.result.session).expires_at = NoneVal
           \/ Before(call.result.session).expires_at > call.time

C38_ExpiredLookupRemoves ==
    \A id \in Ids :
        (/\ call.op = "get"
         /\ call.header # <<>> /\ call.header[1] = CookiePair(CookieName, id)
         /\ Before(id).present
         /\ Before(id).expires_at # NoneVal
         /\ call.time > Before(id).expires_at)
            => /\ call.result = Err("SessionExpired", <<id>>)
               /\ ~manager[id].present
               /\ \A other \in Ids \ {id} : manager[other] = Before(other)
\* A get for an expired session has failed while the store holds another
\* session, which is still there.
C38_Witness ==
    /\ call.op = "get"
    /\ call.result.error = "SessionExpired"
    /\ \E id \in Ids :
          /\ call.header[1] = CookiePair(CookieName, id)
          /\ Before(id).present /\ ~manager[id].present
          /\ \E other \in Ids \ {id} :
                 manager[other].present /\ manager[other] = Before(other)

\* ------------------------------------------------------------ claims, route_request
\* C27: a request whose method is not among the matched route's methods is
\* answered 405, and one whose method is among them is not answered 405
\* (the route does not redirect and the services it needs are configured).
C27_MethodNotAllowed ==
    (/\ routed.method # "none"
     /\ ~redirects(routed.route)
     /\ routed.uploader
     /\ routed.session_manager)
        => (routed.answer = "405" <=> routed.method \notin routed.route.methods)

\* C36: a request whose uri is the matched route's path, on a route with a
\* redirect target, is answered 301, whether or not the route has static
\* files; only a static-files route whose directory has that very file
\* serves the file instead.
C36_RedirectOnRoutePath ==
    (routed.method # "none" /\ routed.route.uri_is_path
     /\ routed.route.redirect)
        => IF routed.route.static_files /\ routed.route.is_file
           THEN routed.answer # "301"
           ELSE routed.answer = "301"

\* C37: a GET outside /api/files and /api/session that is not redirected
\* goes to the CGI handler when the route has a CGI configuration, to the
\* static handler when it has static files and no CGI configuration, and is
\* answered NotFound when it has neither.
C37_CgiBeforeStatic ==
    (routed.method = "GET" /\ routed.route.uri = "/page"
     /\ ~redirects(routed.route))
        => routed.answer =
               (IF routed.route.cgi_config THEN "cgi"
                ELSE IF routed.route.static_files THEN "static"
                ELSE "404")

\* ------------------------------------------------------------ claims, http
\* C28: a response written with a non-empty body has a Content-Length
\* header and its value is the byte length of the body that to_string
\* emits.
C28_ContentLengthIsWireLength ==
    (built.some /\ built.wire_len > 0)
        => built.content_length = built.wire_len

\* C29: parsing the text of a request gives the request back: method, uri,
\* version, headers and body.
C29_ParseOfToString ==
    parsed.request.method # "none" => parsed.result = parsed.request

\* ------------------------------------------------------------ claims, static files
\* C30: serve_file on a missing file returns with status NotFound: the
\* configured 404 page if that file exists, else the built-in template; if
\* neither exists it still returns.
C30_MissingFileReturns404 ==
    (served_file.path # NoPath /\ served_file.path \notin disk.files)
        => /\ served_file.result.outcome = "Ok"
           /\ served_file.result.status = "NotFound"
           /\ (disk.custom_404 /\ CustomPage \in disk.files)
                  => served_file.result.file = CustomPage
           /\ (~(disk.custom_404 /\ CustomPage \in disk.files)
               /\ ErrorTemplate \in disk.files)
                  => served_file.result.file = ErrorTemplate

\* C31: serve_static never returns a file outside the configured root: when
\* it returns a file, the place the path of that file resolves to is under
\* Directory.
C31_ServedUnderRoot ==
    (served_static.called /\ served_static.result.outcome = "Ok")
        => LET w == walk(disk, <<>>, served_static.result.file)
           IN /\ Len(w.path) >= Len(Directory)
              /\ SubSeq(w.path, 1, Len(Directory)) = Directory

\* ------------------------------------------------------------ claims, framing
\* C34: the framing is chunked when a Transfer-Encoding: chunked header is
\* present (with or without Content-Length), else Content-Length N when
\* that header is numeric, else an empty body; no other header line changes
\* it. Stated for the blocks with at most one Content-Length line, for the
\* reader and for the connection.
C34_FramingFromHeaders ==
    (/\ framing.decided
     /\ ~(\E i, j \in DOMAIN framing.lines :
             /\ framing.lines[i] = BadLengthLine
             /\ framing.lines[j] = ContentLengthLines[3]))
        => LET has(line) ==
                   \E i \in DOMAIN framing.lines : framing.lines[i] = line
               expected ==
                   IF has(TEChunked)
                   THEN [tag |-> "Chunked", content_length |-> 0]
                   ELSE IF has(ContentLengthLines[3])
                   THEN [tag |-> "Standard", content_length |-> 2]
                   ELSE [tag |-> "Standard", content_length |-> 0]
           IN /\ framing.reader = expected
              /\ framing.connection = expected

\* ------------------------------------------------------------ claims, get_route
\* C35: get_route returns the first route whose path equals the uri; else
\* the first route that matches as a pattern (equal segment counts, ':'
\* segments bind any segment, the others equal; a '/' at the end is not a
\* segment); else the first route with static files whose directory holds
\* the uri as a file; else none. A route with the path of the uri wins over
\* a pattern listed before it.
C35_RouteOrder ==
    lookup.done =>
        LET routes == lookup.routes
            path == lookup.path
            found == lookup.route
            equals(i) == routes[i].path = path
            pattern(i) ==
                LET r == trim_end_matches(routes[i].path)
                    p == trim_end_matches(path)
                IN /\ Len(r) = Len(p)
                   /\ \A k \in 1..Len(r) : r[k] = ":id" \/ r[k] = p[k]
            holds(i) ==
                /\ routes[i].static_files
                /\ LET w == walk(disk, <<>>,
                                 Directory \o trim_start_matches(path))
                   IN w.found /\ w.path \in disk.files
            firstOf(ok(_)) ==
                /\ found \in DOMAIN routes
                /\ ok(found)
                /\ \A j \in 1..(found - 1) : ~ok(j)
        IN IF \E i \in DOMAIN routes : equals(i) THEN firstOf(equals)
           ELSE IF \E i \in DOMAIN routes : pattern(i) THEN firstOf(pattern)
           ELSE IF \E i \in DOMAIN routes : holds(i) THEN firstOf(holds)
           ELSE found = 0
\* A route with the path of the uri was found behind a pattern that matches
\* the uri too.
C35_Witness ==
    /\ lookup.done
    /\ lookup.route > 1
    /\ lookup.routes[lookup.route].path = lookup.path
    /\ \E j \in 1..(lookup.route - 1) :
          /\ lookup.routes[j].path # lookup.path
          /\ is_dynamic_match(lookup.routes[j], lookup.path)

\* C33: a request whose uri is longer than the limit (8192 characters,
\* URI_LIMIT_IN_TEST here) is answered with status 414.
C33_LongUriIs414 ==
    (lookup.done /\ UriLen(lookup.path) > URI_LIMIT_IN_TEST)
        => lookup.answer = "414"

\* ------------------------------------------------------------ claims, uploads
\* C32: after any uploads and deletes, no two records of the registry have
\* the same id, and the id an upload was answered with is the id of no
\* other file that is still there, uploaded or found at the start.
C32_UploadIdsUnique ==
    /\ \A i, j \in DOMAIN database :
          i # j => database[i].id # database[j].id
    /\ \A f, g \in uploads : f.path # g.path => f.id # g.id
    /\ \A f \in uploads : \A i \in DOMAIN database :
          (database[i].path # f.path /\ database[i].path \in upload_dir)
              => database[i].id # f.id
====
